---------------------------- MODULE Spec2Model ----------------------------
(***************************************************************************)
(* Wind Catcher & River Turn: the confluence aggregator                    *)
(* (master_confluence.py), the indicator library (indicators.py,           *)
(* enhanced_hull_analyzer.py) and the signal detection loop                *)
(* (signal_detector_service.py).                                           *)
(*                                                                         *)
(* Three specifications share the variables:                               *)
(*   Spec      the detection service: scan cycles over user_watchlists     *)
(*   SpecConf  master_confluence.main: analyze_master_confluence(conn, s)  *)
(*   SpecInd   the WMA / Hull MA functions applied to price series         *)
(***************************************************************************)
EXTENDS Integers, Sequences, FiniteSets

VARIABLES
    market,      \* price_data and what the analyzers read from it, per symbol
    confOut,     \* SpecConf: outcome of analyze_master_confluence per symbol
    inSeries,    \* SpecInd: the close series handed to the indicator functions
    inPeriod,    \* SpecInd: the period argument
    indOut,      \* SpecInd: what the indicator functions returned
    watchlist,   \* rows of user_watchlists
    signals,     \* rows of the signals table, in id order
    now,         \* wall clock, seconds (utils.get_current_timestamp)
    bot,         \* self.telegram_bot: "none", "disabled" or "enabled"
    pc,          \* position of the detection service
    entries,     \* the watchlist as fetched by the running scan_watchlists call
    idx,         \* index of the next entry of the running cycle
    stats,       \* the stats dict of the running scan_watchlists call
    scanlog,     \* history: per processed entry of the cycle, what happened to it
    botLog,      \* SpecBot: the calls made on a TelegramBot and what they returned
    gator,       \* SpecGator: three Alligator line values and the states determined
    candles,     \* SpecHull: the candle window handed to the Hull detectors
    detected,    \* SpecHull: what the detectors returned for it
    dedup,       \* SpecDedup: the duplicate checks made and what they returned
    alligatorLog, \* SpecTransitions: per-candle Alligator states and the transitions detected
    kijunLog,    \* SpecKijun: a candle window with its Kijun line and the touches detected
    aoLog,       \* SpecDivergence: pivots of price and oscillator and the divergences detected
    priceData,   \* SpecCollect: a fetched batch of candles and the price_data rows stored from it
    retraceLog,  \* SpecRetrace: a frame with its Alligator lines, the events and their signals
    evalLog      \* SpecEval: the snapshots one evaluation loaded, in order, and its result

indVars == <<inSeries, inPeriod, indOut>>
serviceVars == <<watchlist, signals, now, bot, pc, entries, idx, stats, scanlog>>
unitVars == <<botLog, gator, candles, detected, dedup, alligatorLog, kijunLog, aoLog, priceData, retraceLog, evalLog>>
vars == <<market, confOut, inSeries, inPeriod, indOut,
          watchlist, signals, now, bot, pc, entries, idx, stats, scanlog,
          botLog, gator, candles, detected, dedup, alligatorLog, kijunLog, aoLog, priceData, retraceLog, evalLog>>

-----------------------------------------------------------------------------
(* Python values *)

NoValue == [none |-> TRUE]

Returned(v) == [raised |-> FALSE, exc |-> "", value |-> v]
Raised(e) == [raised |-> TRUE, exc |-> e, value |-> NoValue]

RECURSIVE SeqsUpTo(_, _)
SeqsUpTo(S, n) ==
    IF n = 0 THEN {<<>>}
    ELSE LET shorter == SeqsUpTo(S, n - 1)
         IN shorter \cup {Append(q, x) : q \in {r \in shorter : Len(r) = n - 1}, x \in S}

Min2(a, b) == IF a <= b THEN a ELSE b
Max2(a, b) == IF a >= b THEN a ELSE b

-----------------------------------------------------------------------------
(* IEEE-754 doubles.  A double d with 0 <= d < 16 that is a multiple of     *)
(* 2^-55 is the pair <<hi, lo>> with d = (hi * 2^29 + lo) * 2^-55.  Every   *)
(* strength, bonus and threshold literal of the program is such a double,   *)
(* and so is every sum of them.                                             *)

LimbBase == 536870912

\* The double nearest to each decimal literal of the program (hex in comments).
F0_0 == <<0, 0>>
F0_2 == <<13421772, 429496730>>     \* 0.2 = 0x3FC999999999999A
F0_3 == <<20132659, 107374182>>     \* 0.3 = 0x3FD3333333333333
F0_6 == <<40265318, 214748364>>     \* 0.6 = 0x3FE3333333333333
F0_7 == <<46976204, 429496728>>     \* 0.7 = 0x3FE6666666666666
F0_8 == <<53687091, 107374184>>     \* 0.8 = 0x3FE999999999999A
F0_9 == <<60397977, 322122548>>     \* 0.9 = 0x3FECCCCCCCCCCCCD
F1_0 == <<67108864, 0>>             \* 1.0
F1_2 == <<80530636, 429496728>>     \* 1.2 = 0x3FF3333333333333
F1_8 == <<120795955, 107374184>>    \* 1.8 = 0x3FFCCCCCCCCCCCCD
F2_5 == <<167772160, 0>>            \* 2.5
F3_0 == <<201326592, 0>>            \* 3.0

\* ulp of the binade of hi * 2^29 + lo, in units of 2^-55
Quantum(hi) ==
    IF hi < 16777216 THEN 1            \* below 2^-2: exact
    ELSE IF hi < 33554432 THEN 2       \* [2^-2, 2^-1)
    ELSE IF hi < 67108864 THEN 4       \* [2^-1, 1)
    ELSE IF hi < 134217728 THEN 8      \* [1, 2)
    ELSE IF hi < 268435456 THEN 16     \* [2, 4)
    ELSE IF hi < 536870912 THEN 32     \* [4, 8)
    ELSE 64                            \* [8, 16)

\* a + b in double arithmetic: the exact sum rounded to nearest, ties to even
FAdd(a, b) ==
    LET lo0 == a[2] + b[2]
        hi == a[1] + b[1] + (lo0 \div LimbBase)
        lo == lo0 % LimbBase
        q == Quantum(hi)
        r == lo % q
        down == lo - r
        up == (2 * r > q) \/ (2 * r = q /\ (down \div q) % 2 = 1)
        lo1 == IF up THEN down + q ELSE down
    IN IF lo1 = LimbBase THEN <<hi + 1, 0>> ELSE <<hi, lo1>>

\* a >= b on doubles
FGe(a, b) == a[1] > b[1] \/ (a[1] = b[1] /\ a[2] >= b[2])
FLt(a, b) == ~FGe(a, b)

-----------------------------------------------------------------------------
(* price_data as the analyzers see it.  A snapshot of one symbol's 1h rows: *)
(*   rows      number of stored candles                                     *)
(*   ts, close timestamp and close of the latest candle                     *)
(*   base,tail the volume column: base on every row but the last three,     *)
(*             whose volumes are tail[1..3]                                 *)
(*   hull, ao, alligator, ichimoku                                          *)
(*             what the detectors of each dedicated analyzer make of these  *)
(*             rows: st = "raise" (an error inside the analyzer) or "ok"    *)
(*             with the events they find, events in the list the analyzer   *)
(*             returns for the aggregator and other in what it detects      *)
(*             beside that list.  An analyzer runs its detectors only on    *)
(*             its minimum of rows.                                         *)

Symbols == {"BTC", "ETH"}
WIND == "wind_catcher"
RIVER == "river_turn"
None == "None"

RawEvent(t, sys, d, s, touch, colour) ==
    [type |-> t, system |-> sys, description |-> d, strength |-> s,
     touch_type |-> touch, cloud_color |-> colour]

\* enhanced_hull_analyzer.detect_hull_breaks: at most one break per window
HullBreaks ==
    { RawEvent("hull_bullish_break", WIND, "First close above Hull 21", F0_7, "", ""),
      RawEvent("hull_bearish_break", RIVER, "First close below Hull 21", F0_7, "", "") }

\* enhanced_hull_analyzer.detect_hull_cross_retests
HullRetests ==
    { RawEvent("hull_cross_retest_bullish", WIND, "Hull 34 support retest after cross", F0_8, "", ""),
      RawEvent("hull_cross_retest_bearish", RIVER, "Hull 21 resistance retest after cross", F0_6, "", "") }

\* enhanced_indicators.detect_regular_divergence
AoBullish == RawEvent("regular_bullish", "", "Regular bullish divergence detected", F0_8, "", "")
AoBearish == RawEvent("regular_bearish", "", "Regular bearish divergence detected", F0_8, "", "")

\* alligator_analyzer.detect_state_transitions: 'transitions' of the result
AlligatorTransition ==
    RawEvent("sleeping_to_awake", "", "Market broke out of consolidation", F0_7, "", "")

\* ichimoku_analyzer.detect_cloud_color_changes: left out of significant_events
CloudColorChange ==
    RawEvent("cloud_color_change", "", "Cloud changed from red to green", F0_8, "", "green")

\* alligator_analyzer.analyze_retracement_history
AlligatorEvents ==
    { RawEvent("zone_entry", "", "Price entered red-blue zone", F0_7, "", ""),
      RawEvent("zone_exit", "", "Price broke above red line (bullish exit)", F0_6, "", ""),
      RawEvent("blue_line_contact", "", "Price touched blue line", F0_9, "", "") }

\* ichimoku_analyzer.detect_price_cloud_retests, detect_kijun_touches
IchimokuEvents ==
    { RawEvent("cloud_retest", "", "Price retested newly formed red cloud", F0_9, "", "red"),
      RawEvent("kijun_touch", "", "Price touched Kijun-sen as support", F0_7, "support", ""),
      RawEvent("kijun_touch", "", "Price touched Kijun-sen as exact", F0_7, "exact", "") }

\* descriptions in which Python's  'bullish' in description  is true
DescriptionsWithBullish ==
    { "Regular bullish divergence detected",
      "Price broke above red line (bullish exit)" }

\* types in which  'bullish' in type  is true
TypesWithBullish == { "regular_bullish", "hull_bullish_break", "hull_cross_retest_bullish" }

\* cloud colours in which  'green' in cloud_color  is true
ColoursWithGreen == { "green" }

MaxEvents == 1       \* longest event list one detector of an analyzer returns
MinRows == 150       \* master_confluence.py:238
QueryLimit == 200    \* master_confluence.py:237

HullMinRows == 50           \* enhanced_hull_analyzer.py:211
AoMinRows == 100            \* enhanced_indicators.py:209
AlligatorMinRows == 150     \* alligator_analyzer.py:251
IchimokuMinRows == 150      \* ichimoku_analyzer.py:222

AnalyzerOk(events) == [st |-> "ok", events |-> events, other |-> <<>>]
AnalyzerOkBeside(events, other) == [st |-> "ok", events |-> events, other |-> other]
AnalyzerRaise == [st |-> "raise", events |-> <<>>, other |-> <<>>]

HullOutcomes ==
    {AnalyzerRaise} \cup
    { AnalyzerOk(b \o r) : b \in {<<>>} \cup {<<e>> : e \in HullBreaks},
                           r \in SeqsUpTo(HullRetests, MaxEvents) }
AoOutcomes ==
    { AnalyzerRaise, AnalyzerOk(<<>>), AnalyzerOk(<<AoBullish>>),
      AnalyzerOk(<<AoBearish>>), AnalyzerOk(<<AoBullish, AoBearish>>) }
AlligatorOutcomes ==
    {AnalyzerRaise, AnalyzerOkBeside(<<>>, <<AlligatorTransition>>)} \cup
    { AnalyzerOk(q) : q \in SeqsUpTo(AlligatorEvents, MaxEvents) }
IchimokuOutcomes ==
    {AnalyzerRaise, AnalyzerOkBeside(<<>>, <<CloudColorChange>>)} \cup
    { AnalyzerOk(q) : q \in SeqsUpTo(IchimokuEvents, MaxEvents) }

\* volume columns: every candle traded nothing, or a steady base with a last
\* candle at 1x, 1.6x, 2.2x or 4x the base, or with a heavy last-but-one candle
BaseVolume == 100
VolumeColumns ==
    { [base |-> 0, tail |-> <<0, 0, 0>>],
      [base |-> BaseVolume, tail |-> <<BaseVolume, 4 * BaseVolume, BaseVolume>>] } \cup
    { [base |-> BaseVolume, tail |-> <<BaseVolume, BaseVolume, b>>] :
          b \in {BaseVolume, (16 * BaseVolume) \div 10, (22 * BaseVolume) \div 10, 4 * BaseVolume} }

Snapshot(rows, ts, vol, h, a, g, i) ==
    [rows |-> rows, ts |-> ts, close |-> 100, base |-> vol.base, tail |-> vol.tail,
     hull |-> h, ao |-> a, alligator |-> g, ichimoku |-> i]

EmptySnapshot ==
    Snapshot(0, 0, [base |-> 0, tail |-> <<0, 0, 0>>],
             AnalyzerOk(<<>>), AnalyzerOk(<<>>), AnalyzerOk(<<>>), AnalyzerOk(<<>>))

-----------------------------------------------------------------------------
(* master_confluence.py *)

\* get_price_data: the latest `limit` rows, oldest first; None when there are none
get_price_data(db, symbol, limit) ==
    LET s == db[symbol]
    IN IF s.rows = 0 THEN NoValue
       ELSE [n |-> Min2(s.rows, limit), ts |-> s.ts, close |-> s.close,
             base |-> s.base, tail |-> s.tail]

\* the volume column of df, rows 1..n
RowVolume(df, i) == IF i <= df.n - 3 THEN df.base ELSE df.tail[i - (df.n - 3)]

RECURSIVE SumRows(_, _, _)
SumRows(df, lo, hi) ==
    IF lo > hi THEN 0
    ELSE IF hi <= df.n - 3 THEN (hi - lo + 1) * df.base
    ELSE RowVolume(df, hi) + SumRows(df, lo, hi - 1)

\* variant: the Hull analyzer runs its detectors on any history
analyze_symbol_hull_any(db, symbol) ==
    IF db[symbol].hull.st = "raise" THEN Raised("Exception")
    ELSE Returned([all_signals |-> db[symbol].hull.events])

\* the dedicated analyzers, each reading the store for itself: None below the
\* analyzer's minimum of rows, else the result dict
analyze_symbol_hull(db, symbol) ==
    IF db[symbol].rows < HullMinRows THEN Returned(NoValue)
    ELSE IF db[symbol].hull.st = "raise" THEN Raised("Exception")
    ELSE Returned([all_signals |-> db[symbol].hull.events])
analyze_symbol_with_ao(db, symbol) ==
    IF db[symbol].rows < AoMinRows THEN Returned(NoValue)
    ELSE IF db[symbol].ao.st = "raise" THEN Raised("Exception")
    ELSE Returned([divergences |-> db[symbol].ao.events])
analyze_symbol_alligator(db, symbol) ==
    IF db[symbol].rows < AlligatorMinRows THEN Returned(NoValue)
    ELSE IF db[symbol].alligator.st = "raise" THEN Raised("Exception")
    ELSE Returned([retracement_events |-> db[symbol].alligator.events,
                   transitions |-> db[symbol].alligator.other])
analyze_symbol_ichimoku(db, symbol) ==
    IF db[symbol].rows < IchimokuMinRows THEN Returned(NoValue)
    ELSE IF db[symbol].ichimoku.st = "raise" THEN Raised("Exception")
    ELSE Returned([significant_events |-> db[symbol].ichimoku.events])

Signal(t, sys, d, s) == [type |-> t, system |-> sys, description |-> d, strength |-> s]

\* the four wrappers: try ... except Exception: return [], and [] for None
get_hull_signals(db, symbol) ==
    LET r == analyze_symbol_hull(db, symbol)
    IN IF r.raised \/ r.value = NoValue THEN <<>>
       ELSE [k \in 1..Len(r.value.all_signals) |->
                LET e == r.value.all_signals[k]
                IN Signal(e.type, e.system, e.description, e.strength)]

get_ao_signals(db, symbol) ==
    LET r == analyze_symbol_with_ao(db, symbol)
    IN IF r.raised \/ r.value = NoValue THEN <<>>
       ELSE [k \in 1..Len(r.value.divergences) |->
                LET e == r.value.divergences[k]
                IN Signal(e.type,
                          IF e.type \in TypesWithBullish THEN WIND ELSE RIVER,
                          e.description, e.strength)]

ContactOrEntry(ev) == SelectSeq(ev, LAMBDA e : e.type \in {"blue_line_contact", "zone_entry"})

\* the loop of get_alligator_signals over result['retracement_events']
AlligatorSignals(retracement_events) ==
    LET kept == ContactOrEntry(retracement_events)
    IN [k \in 1..Len(kept) |->
           LET e == kept[k]
           IN Signal(IF e.type = "zone_entry" THEN "alligator_zone_entry"
                                              ELSE "alligator_blue_line_contact",
                     IF e.description \in DescriptionsWithBullish THEN WIND ELSE RIVER,
                     e.description, e.strength)]

get_alligator_signals(db, symbol) ==
    LET r == analyze_symbol_alligator(db, symbol)
    IN IF r.raised \/ r.value = NoValue THEN <<>>
       ELSE AlligatorSignals(r.value.retracement_events)

get_ichimoku_signals(db, symbol) ==
    LET r == analyze_symbol_ichimoku(db, symbol)
    IN IF r.raised \/ r.value = NoValue THEN <<>>
       ELSE [k \in 1..Len(r.value.significant_events) |->
                LET e == r.value.significant_events[k]
                    sys == IF e.type = "kijun_touch"
                           THEN (IF e.touch_type = "support" THEN WIND ELSE RIVER)
                           ELSE IF e.type = "cloud_retest"
                           THEN (IF e.cloud_color \in ColoursWithGreen THEN WIND ELSE RIVER)
                           ELSE WIND
                IN Signal(e.type, sys, e.description, e.strength)]

MinBaselineRows == 24     \* master_confluence.py:119, 123
BaselineWindow == 120     \* master_confluence.py:122
MonitoringCandles == 3    \* master_confluence.py:117
CandleSeconds == 3600     \* one 1h candle

RowTimestamp(df, i) == df.ts - (df.n - i) * CandleSeconds

\* ratio = volume / baseline, kept as the fraction num / den (den > 0)
RatioGe(ratio, a, b) == ratio.num * b >= a * ratio.den

VolumeReading(df, i, count, total) ==
    LET ratio == [num |-> RowVolume(df, i) * count, den |-> total]
    IN IF RatioGe(ratio, 3, 1)
       THEN [timestamp |-> RowTimestamp(df, i), level |-> "CLIMAX", ratio |-> ratio, strength |-> F1_0]
       ELSE IF RatioGe(ratio, 2, 1)
       THEN [timestamp |-> RowTimestamp(df, i), level |-> "HOT", ratio |-> ratio, strength |-> F0_8]
       ELSE IF RatioGe(ratio, 3, 2)
       THEN [timestamp |-> RowTimestamp(df, i), level |-> "WARMING", ratio |-> ratio, strength |-> F0_6]
       ELSE [timestamp |-> RowTimestamp(df, i), level |-> "NORMAL", ratio |-> ratio, strength |-> F0_2]

\* the loop over recent_data.iterrows(), from row i on; acc holds the readings so far.
\* A row of the object-typed frame holds Python floats: volume / 0.0 raises.
RECURSIVE VolumeRows(_, _, _)
VolumeRows(df, i, acc) ==
    IF i > df.n THEN Returned(acc)
    ELSE LET window == Min2(BaselineWindow, df.n)
             count == Min2(i, window)
             total == SumRows(df, i - count + 1, i)
         IN IF count < MinBaselineRows THEN VolumeRows(df, i + 1, acc)
            ELSE IF total = 0 THEN Raised("ZeroDivisionError")
            ELSE VolumeRows(df, i + 1, Append(acc, VolumeReading(df, i, count, total)))

detect_volume_signals(df) ==
    IF df.n < MinBaselineRows THEN Returned(<<>>)
    ELSE VolumeRows(df, Max2(1, df.n - MonitoringCandles + 1), <<>>)

\* variant: the system of the latest event wins
RECURSIVE AddSignals_last(_, _)
AddSignals_last(acc, sigs) ==
    IF sigs = <<>> THEN acc
    ELSE LET signal == Head(sigs)
         IN AddSignals_last(
              [total_score |-> FAdd(acc.total_score, signal.strength),
               factors |-> Append(acc.factors, signal.description),
               signal_count |-> acc.signal_count + 1,
               primary_system |-> signal.system],
              Tail(sigs))

\* one  for signal in <family>_signals:  loop of calculate_master_confluence
RECURSIVE AddSignals(_, _)
AddSignals(acc, sigs) ==
    IF sigs = <<>> THEN acc
    ELSE LET signal == Head(sigs)
         IN AddSignals(
              [total_score |-> FAdd(acc.total_score, signal.strength),
               factors |-> Append(acc.factors, signal.description),
               signal_count |-> acc.signal_count + 1,
               primary_system |-> IF acc.primary_system \in {None, ""}
                                  THEN signal.system ELSE acc.primary_system],
              Tail(sigs))

VolumeFactor(level) ==
    CASE level = "CLIMAX" -> "Volume: CLIMAX"
      [] level = "HOT" -> "Volume: HOT"
      [] level = "WARMING" -> "Volume: WARMING"
      [] OTHER -> "Volume: NORMAL"

\* variant: the oldest monitored reading is scored
AddVolume_first(acc, volume_signals) ==
    IF volume_signals = <<>> THEN acc
    ELSE LET first_volume == volume_signals[1]
             scored == [acc EXCEPT !.total_score = FAdd(@, first_volume.strength),
                                   !.factors = Append(@, VolumeFactor(first_volume.level))]
         IN IF RatioGe(first_volume.ratio, 3, 2)
            THEN [scored EXCEPT !.total_score = FAdd(@, F0_3),
                                !.factors = Append(@, "Volume confirmation bonus")]
            ELSE scored

\* the volume confirmation block
AddVolume(acc, volume_signals) ==
    IF volume_signals = <<>> THEN acc
    ELSE LET latest_volume == volume_signals[Len(volume_signals)]
             scored == [acc EXCEPT !.total_score = FAdd(@, latest_volume.strength),
                                   !.factors = Append(@, VolumeFactor(latest_volume.level))]
         IN IF RatioGe(latest_volume.ratio, 3, 2)
            THEN [scored EXCEPT !.total_score = FAdd(@, F0_3),
                                !.factors = Append(@, "Volume confirmation bonus")]
            ELSE scored

\* variant: boundaries open on the low side
Classify_strict(total_score) ==
    IF FLt(F3_0, total_score) THEN "PERFECT"
    ELSE IF FLt(F2_5, total_score) THEN "EXCELLENT"
    ELSE IF FLt(F1_8, total_score) THEN "VERY GOOD"
    ELSE IF FLt(F1_2, total_score) THEN "GOOD"
    ELSE IF FLt(F0_8, total_score) THEN "INTERESTING"
    ELSE "WEAK"

\* the threshold ladder
Classify(total_score) ==
    IF FGe(total_score, F3_0) THEN "PERFECT"
    ELSE IF FGe(total_score, F2_5) THEN "EXCELLENT"
    ELSE IF FGe(total_score, F1_8) THEN "VERY GOOD"
    ELSE IF FGe(total_score, F1_2) THEN "GOOD"
    ELSE IF FGe(total_score, F0_8) THEN "INTERESTING"
    ELSE "WEAK"

calculate_master_confluence(hull_signals, ao_signals, alligator_signals, ichimoku_signals, volume_signals) ==
    LET start == [total_score |-> F0_0, factors |-> <<>>,
                  signal_count |-> 0, primary_system |-> None]
        afterHull == AddSignals(start, hull_signals)
        afterAo == AddSignals(afterHull, ao_signals)
        afterAlligator == AddSignals(afterAo, alligator_signals)
        afterIchimoku == AddSignals(afterAlligator, ichimoku_signals)
        final == AddVolume(afterIchimoku, volume_signals)
    IN [score |-> final.total_score,
        classification |-> Classify(final.total_score),
        factors |-> final.factors,
        primary_system |-> final.primary_system,
        signal_count |-> final.signal_count]

\* def analyze_master_confluence(conn, symbol)
analyze_master_confluence_params == <<"conn", "symbol">>

analyze_master_confluence(db, symbol) ==
    LET df == get_price_data(db, symbol, QueryLimit)
    IN IF df = NoValue THEN Returned(NoValue)
       ELSE IF df.n < MinRows THEN Returned(NoValue)
       ELSE LET hull_signals == get_hull_signals(db, symbol)
                ao_signals == get_ao_signals(db, symbol)
                alligator_signals == get_alligator_signals(db, symbol)
                ichimoku_signals == get_ichimoku_signals(db, symbol)
                volume == detect_volume_signals(df)
            IN IF volume.raised THEN Raised(volume.exc)
               ELSE Returned(
                      [symbol |-> symbol, timestamp |-> df.ts, price |-> df.close,
                       hull_signals |-> hull_signals, ao_signals |-> ao_signals,
                       alligator_signals |-> alligator_signals,
                       ichimoku_signals |-> ichimoku_signals,
                       volume_signals |-> volume.value,
                       confluence |-> calculate_master_confluence(
                           hull_signals, ao_signals, alligator_signals,
                           ichimoku_signals, volume.value)])

-----------------------------------------------------------------------------
(* SpecConf: master_confluence.main *)

LatestTimestamp == 36000      \* timestamp of the latest stored candle

FullSnapshots ==
    { Snapshot(MinRows, LatestTimestamp, vol, h, a, g, i) :
          vol \in VolumeColumns, h \in HullOutcomes, a \in AoOutcomes,
          g \in AlligatorOutcomes, i \in IchimokuOutcomes }

\* histories one candle short of the volume baseline, of the Hull analyzer, of
\* the oscillator analyzer and of the aggregator with the other two analyzers
ShortRows == { MinBaselineRows - 1, HullMinRows - 1, AoMinRows - 1, MinRows - 1 }

\* short histories whose candles would give every detector something to report
ShortSnapshots ==
    LET hot == [base |-> BaseVolume, tail |-> <<BaseVolume, BaseVolume, 4 * BaseVolume>>]
        bull == RawEvent("hull_bullish_break", WIND, "First close above Hull 21", F0_7, "", "")
        contact == RawEvent("blue_line_contact", "", "Price touched blue line", F0_9, "", "")
        touch == RawEvent("kijun_touch", "", "Price touched Kijun-sen as support", F0_7, "support", "")
    IN { Snapshot(n, LatestTimestamp, hot, AnalyzerOk(<<bull>>), AnalyzerOk(<<AoBullish>>),
                  AnalyzerOk(<<contact>>), AnalyzerOk(<<touch>>)) : n \in ShortRows }

NotCalled == [done |-> FALSE, out |-> Returned(NoValue)]

IdleConf ==
    confOut = [todo |-> <<>>, calls |-> [s \in Symbols |-> NotCalled],
               results |-> <<>>, phase |-> "complete"]

IdleBot == botLog = <<>>
IdleGator == gator = [jaw |-> 0, teeth |-> 0, lips |-> 0, evals |-> <<>>]
IdleHull == candles = <<>> /\ detected = NoValue
IdleDedup == dedup = <<>>
IdleTransitions == alligatorLog = [states |-> <<>>, transitions |-> NoValue, done |-> FALSE]
IdleKijun == kijunLog = [df |-> <<>>, kijun_sen |-> <<>>, touches |-> <<>>, done |-> FALSE]
IdleDivergence == aoLog = [price_pivots |-> <<>>, osc_pivots |-> <<>>, price_data |-> <<>>, oscillator_data |-> <<>>, calls |-> <<>>]
IdleCollect == priceData = [ohlcv_data |-> <<>>, rows |-> {}, stored_count |-> 0, path |-> "none"]
IdleRetrace == retraceLog = NoValue
IdleEval == evalLog = NoValue
IdleUnits == IdleBot /\ IdleGator /\ IdleHull /\ IdleDedup /\ IdleTransitions /\ IdleKijun /\ IdleDivergence /\ IdleCollect /\ IdleRetrace /\ IdleEval

IdleInd == inSeries = <<>> /\ inPeriod = 1 /\ indOut = [scalar |-> NoValue, series |-> NoValue]

\* stats = {'scanned': 0, 'signals_found': 0, 'signals_saved': 0, 'alerts_sent': 0, 'errors': []}
FreshStats ==
    [scanned |-> 0, signals_found |-> 0, signals_saved |-> 0, alerts_sent |-> 0, errors |-> <<>>]

IdleService ==
    /\ watchlist = {}
    /\ signals = <<>>
    /\ now = 0
    /\ bot = "none"
    /\ pc = "sleeping"
    /\ entries = <<>>
    /\ idx = 1
    /\ stats = FreshStats
    /\ scanlog = <<>>

ConfInit ==
    /\ market \in { [s \in Symbols |-> IF s = "BTC" THEN snap ELSE EmptySnapshot] :
                       snap \in FullSnapshots \cup ShortSnapshots }
    /\ confOut \in { [todo |-> order, calls |-> [s \in Symbols |-> NotCalled],
                      results |-> <<>>, phase |-> "loop"] :
                       order \in { <<"BTC", "ETH">> } }
    /\ IdleInd
    /\ IdleService
    /\ IdleUnits

\* results.sort(key=score, reverse=True): stable, highest score first
RECURSIVE InsertByScore(_, _, _)
InsertByScore(sorted, symbol, calls) ==
    IF sorted = <<>> THEN <<symbol>>
    ELSE IF FGe(calls[Head(sorted)].out.value.confluence.score,
                calls[symbol].out.value.confluence.score)
         THEN <<Head(sorted)>> \o InsertByScore(Tail(sorted), symbol, calls)
         ELSE <<symbol>> \o sorted

RECURSIVE SortByScore(_, _)
SortByScore(results, calls) ==
    IF results = <<>> THEN <<>>
    ELSE InsertByScore(SortByScore(SubSeq(results, 1, Len(results) - 1), calls),
                       results[Len(results)], calls)

\* one pass of  for symbol in watchlist:  an exception of the call ends main
ConfAnalyze ==
    /\ confOut.phase = "loop"
    /\ confOut.todo # <<>>
    /\ LET symbol == Head(confOut.todo)
           result == analyze_master_confluence(market, symbol)
           listed == /\ ~result.raised
                     /\ result.value # NoValue
                     /\ result.value.confluence.signal_count > 0
       IN confOut' = [todo |-> Tail(confOut.todo),
                      calls |-> [confOut.calls EXCEPT ![symbol] = [done |-> TRUE, out |-> result]],
                      results |-> IF listed THEN Append(confOut.results, symbol)
                                            ELSE confOut.results,
                      phase |-> IF result.raised THEN "crashed" ELSE "loop"]
    /\ UNCHANGED <<unitVars, market, indVars, serviceVars>>

\* the master summary after the loop
ConfSummary ==
    /\ confOut.phase = "loop"
    /\ confOut.todo = <<>>
    /\ confOut' = [confOut EXCEPT !.results = SortByScore(@, confOut.calls),
                                  !.phase = "complete"]
    /\ UNCHANGED <<unitVars, market, indVars, serviceVars>>

ConfNext == ConfAnalyze \/ ConfSummary

SpecConf == ConfInit /\ [][ConfNext]_vars

-----------------------------------------------------------------------------
(* indicators.py and enhanced_hull_analyzer.py: WMA and Hull MA.             *)
(* A computed number is the fraction num / den the code divides out, or NaN. *)

Q(n, d) == [nan |-> FALSE, num |-> n, den |-> d]
NaN == [nan |-> TRUE, num |-> 0, den |-> 1]

QAdd(a, b) == Q(a.num * b.den + b.num * a.den, a.den * b.den)
QScale(k, a) == Q(k * a.num, a.den)

\* 2 * a - b, NaN when either is
TwiceMinus(a, b) ==
    IF a.nan \/ b.nan THEN NaN
    ELSE Q(2 * a.num * b.den - b.num * a.den, a.den * b.den)

\* numerator / divisor; 0 / 0 is nan in numpy
QDivInt(a, k) ==
    IF k = 0 THEN NaN ELSE Q(a.num, a.den * k)

\* variant: heaviest weight on the oldest value
Weights_descending(period) == [i \in 1..period |-> period + 1 - i]

\* np.arange(1, period + 1)
Weights(period) == [i \in 1..period |-> i]

RECURSIVE SumInts(_)
SumInts(xs) == IF xs = <<>> THEN 0 ELSE Head(xs) + SumInts(Tail(xs))

\* np.sum(recent_data * weights) on arrays of equal length
RECURSIVE WeightedSum(_, _)
WeightedSum(xs, ws) ==
    IF xs = <<>> THEN 0 ELSE Head(xs) * Head(ws) + WeightedSum(Tail(xs), Tail(ws))

\* int(period / 2), int(np.sqrt(period))
HalfPeriod(period) == period \div 2
SqrtPeriod(period) == CHOOSE k \in 0..period : k * k <= period /\ period < (k + 1) * (k + 1)

\* indicators.calculate_wma.  With period 0 the slice data[-0:] is the whole
\* array and the weights are empty: the product broadcasts only for len <= 1.
indicators_calculate_wma(data, period) ==
    IF Len(data) < period THEN Returned(NoValue)
    ELSE IF period = 0
    THEN (IF Len(data) <= 1 THEN Returned(NaN) ELSE Raised("ValueError"))
    ELSE LET weights == Weights(period)
             recent_data == SubSeq(data, Len(data) - period + 1, Len(data))
         IN Returned(Q(WeightedSum(recent_data, weights), SumInts(weights)))

\* indicators.calculate_hull_ma
indicators_calculate_hull_ma(data, period) ==
    IF Len(data) < period THEN Returned(NoValue)
    ELSE LET half_period == HalfPeriod(period)
             wma_half == indicators_calculate_wma(data, half_period)
             wma_full == indicators_calculate_wma(data, period)
         IN IF wma_half.raised THEN wma_half
            ELSE IF wma_full.raised THEN wma_full
            ELSE IF wma_half.value = NoValue \/ wma_full.value = NoValue
            THEN Returned(NoValue)
            ELSE Returned(TwiceMinus(wma_half.value, wma_full.value))

\* np.sum(price_window * weights) on a pandas Series: Series.sum skips NaN
RECURSIVE SkipnaWeightedSum(_, _)
SkipnaWeightedSum(xs, ws) ==
    IF xs = <<>> THEN Q(0, 1)
    ELSE LET rest == SkipnaWeightedSum(Tail(xs), Tail(ws))
         IN IF Head(xs).nan THEN rest
            ELSE QAdd(QScale(Head(ws), Head(xs)), rest)

\* enhanced_hull_analyzer.calculate_wma, a Series in and a Series out
hull_analyzer_calculate_wma(prices, period) ==
    IF Len(prices) < period THEN [i \in 1..Len(prices) |-> NaN]
    ELSE LET weights == Weights(period)
         IN [i \in 1..Len(prices) |->
               IF i < period THEN NaN
               ELSE LET price_window == SubSeq(prices, i - period + 1, i)
                    IN QDivInt(SkipnaWeightedSum(price_window, weights), SumInts(weights))]

\* enhanced_hull_analyzer.calculate_hull_ma
hull_analyzer_calculate_hull_ma(prices, period) ==
    IF Len(prices) < period THEN [i \in 1..Len(prices) |-> NaN]
    ELSE LET half_period == HalfPeriod(period)
             wma_half == hull_analyzer_calculate_wma(prices, half_period)
             wma_full == hull_analyzer_calculate_wma(prices, period)
             diff == [i \in 1..Len(prices) |-> TwiceMinus(wma_half[i], wma_full[i])]
             sqrt_period == SqrtPeriod(period)
         IN hull_analyzer_calculate_wma(diff, sqrt_period)

\* np.sum(price_window * weights) on the .values array: a NaN makes the sum NaN
RECURSIVE NanWeightedSum(_, _)
NanWeightedSum(xs, ws) ==
    IF xs = <<>> THEN Q(0, 1)
    ELSE LET rest == NanWeightedSum(Tail(xs), Tail(ws))
         IN IF Head(xs).nan \/ rest.nan THEN NaN
            ELSE QAdd(QScale(Head(ws), Head(xs)), rest)

\* indicators.calculate_wma_series
indicators_calculate_wma_series(prices, period) ==
    IF Len(prices) < period THEN [i \in 1..Len(prices) |-> NaN]
    ELSE LET weights == Weights(period)
         IN [i \in 1..Len(prices) |->
               IF i < period THEN NaN
               ELSE LET price_window == SubSeq(prices, i - period + 1, i)
                        weighted_sum == NanWeightedSum(price_window, weights)
                    IN IF weighted_sum.nan THEN NaN
                       ELSE QDivInt(weighted_sum, SumInts(weights))]

\* indicators.calculate_hull_ma_series
indicators_calculate_hull_ma_series(prices, period) ==
    IF Len(prices) < period THEN [i \in 1..Len(prices) |-> NaN]
    ELSE LET half_period == HalfPeriod(period)
             wma_half == indicators_calculate_wma_series(prices, half_period)
             wma_full == indicators_calculate_wma_series(prices, period)
             diff == [i \in 1..Len(prices) |-> TwiceMinus(wma_half[i], wma_full[i])]
             sqrt_period == SqrtPeriod(period)
         IN indicators_calculate_wma_series(diff, sqrt_period)

\* the close column as a Series
CloseSeries(data) == [i \in 1..Len(data) |-> Q(data[i], 1)]

-----------------------------------------------------------------------------
(* SpecInd: the indicator functions applied to a close series *)

MaxLen == 7          \* longest close series
MaxPeriod == 4       \* largest period
StartPrices == {1, 5}
PriceSteps == {-1, 1, 2}

\* close series of positive prices, each one step from the one before
RECURSIVE PriceSeries(_)
PriceSeries(n) ==
    IF n = 0 THEN {<<>>}
    ELSE IF n = 1 THEN {<<>>} \cup {<<p>> : p \in StartPrices}
    ELSE LET shorter == PriceSeries(n - 1)
         IN shorter \cup
            { Append(q, q[Len(q)] + d) :
                  q \in {r \in shorter : Len(r) = n - 1},
                  d \in PriceSteps }

PositiveSeries(n) == { q \in PriceSeries(n) : \A i \in 1..Len(q) : q[i] >= 1 }

IndInit ==
    /\ inSeries \in PositiveSeries(MaxLen)
    /\ inPeriod \in 1..MaxPeriod
    /\ indOut = [scalar |-> NoValue, series |-> NoValue]
    /\ market = [s \in Symbols |-> EmptySnapshot]
    /\ IdleConf
    /\ IdleService
    /\ IdleUnits

\* indicators.calculate_wma and indicators.calculate_hull_ma on the array
IndScalar ==
    /\ indOut.scalar = NoValue
    /\ indOut' = [indOut EXCEPT !.scalar =
                     [wma |-> indicators_calculate_wma(inSeries, inPeriod),
                      hull |-> indicators_calculate_hull_ma(inSeries, inPeriod)]]
    /\ UNCHANGED <<unitVars, market, confOut, inSeries, inPeriod, serviceVars>>

\* enhanced_hull_analyzer.calculate_wma and calculate_hull_ma, and
\* indicators.calculate_hull_ma_series, on the Series
IndSeries ==
    /\ indOut.series = NoValue
    /\ indOut' = [indOut EXCEPT !.series =
                     [wma |-> hull_analyzer_calculate_wma(CloseSeries(inSeries), inPeriod),
                      hull |-> hull_analyzer_calculate_hull_ma(CloseSeries(inSeries), inPeriod),
                      hull_series |-> indicators_calculate_hull_ma_series(CloseSeries(inSeries),
                                                                         inPeriod)]]
    /\ UNCHANGED <<unitVars, market, confOut, inSeries, inPeriod, serviceVars>>

IndNext == IndScalar \/ IndSeries

SpecInd == IndInit /\ [][IndNext]_vars

-----------------------------------------------------------------------------
(* Properties of the aggregator, over the calls main has made *)

\* the calls that returned a result dict
Analyzed(s) ==
    /\ confOut.calls[s].done
    /\ ~confOut.calls[s].out.raised
    /\ confOut.calls[s].out.value # NoValue

ResultOf(s) == confOut.calls[s].out.value

\* Hull, then AO, then Alligator, then Ichimoku events of a result
EventsInOrder(r) ==
    r.hull_signals \o r.ao_signals \o r.alligator_signals \o r.ichimoku_signals

\* sum of the strengths of events[1..k], accumulated in doubles from 0
RECURSIVE StrengthSum(_, _)
StrengthSum(events, k) ==
    IF k = 0 THEN F0_0 ELSE FAdd(StrengthSum(events, k - 1), events[k].strength)

LatestVolume(r) == r.volume_signals[Len(r.volume_signals)]

ExpectedScore(r) ==
    LET fromEvents == StrengthSum(EventsInOrder(r), Len(EventsInOrder(r)))
    IN IF r.volume_signals = <<>> THEN fromEvents
       ELSE LET withVolume == FAdd(fromEvents, LatestVolume(r).strength)
            IN IF 2 * LatestVolume(r).ratio.num >= 3 * LatestVolume(r).ratio.den
               THEN FAdd(withVolume, F0_3)
               ELSE withVolume

\* C5: the confluence score of every result equals the sum of the strengths of
\* all events of the Hull, AO, Alligator and Ichimoku lists, plus the strength
\* of the last volume reading when there is one, plus 0.3 exactly when that
\* reading's ratio is >= 1.5; nothing else contributes.
C5_ScoreIsSum ==
    \A s \in Symbols :
        Analyzed(s) => ResultOf(s).confluence.score = ExpectedScore(ResultOf(s))

\* a result with events of two families, a heavy last candle after a quiet one,
\* and the bonus
C5_Witness ==
    \E s \in Symbols :
        /\ Analyzed(s)
        /\ ResultOf(s).hull_signals # <<>>
        /\ ResultOf(s).ichimoku_signals # <<>>
        /\ Len(ResultOf(s).volume_signals) = 3
        /\ ResultOf(s).volume_signals[1].level = "NORMAL"
        /\ LatestVolume(ResultOf(s)).level = "HOT"
        /\ ResultOf(s).confluence.score = ExpectedScore(ResultOf(s))
        /\ FGe(ResultOf(s).confluence.score, F2_5)

\* C6: classification is a total function of the score, closed on the low side:
\* PERFECT iff score >= 3.0, EXCELLENT iff 2.5 <= score < 3.0, VERY GOOD iff
\* 1.8 <= score < 2.5, GOOD iff 1.2 <= score < 1.8, INTERESTING iff
\* 0.8 <= score < 1.2, WEAK iff score < 0.8.
C6_ClassificationLadder ==
    \A s \in Symbols :
        Analyzed(s) =>
            LET sc == ResultOf(s).confluence.score
                cl == ResultOf(s).confluence.classification
            IN /\ cl \in {"PERFECT", "EXCELLENT", "VERY GOOD", "GOOD", "INTERESTING", "WEAK"}
               /\ (cl = "PERFECT") <=> FGe(sc, F3_0)
               /\ (cl = "EXCELLENT") <=> (FGe(sc, F2_5) /\ FLt(sc, F3_0))
               /\ (cl = "VERY GOOD") <=> (FGe(sc, F1_8) /\ FLt(sc, F2_5))
               /\ (cl = "GOOD") <=> (FGe(sc, F1_2) /\ FLt(sc, F1_8))
               /\ (cl = "INTERESTING") <=> (FGe(sc, F0_8) /\ FLt(sc, F1_2))
               /\ (cl = "WEAK") <=> FLt(sc, F0_8)

\* a score that sits exactly on a boundary and is classified into the upper class
C6_Witness ==
    \E s \in Symbols :
        /\ Analyzed(s)
        /\ ResultOf(s).confluence.score = F1_8
        /\ ResultOf(s).confluence.classification = "VERY GOOD"

\* C7: primary_system equals the system of the first event in the order Hull,
\* AO, Alligator, Ichimoku (each list in its own order); later events and the
\* volume reading never change it.
C7_PrimaryIsFirst ==
    \A s \in Symbols :
        Analyzed(s) =>
            LET events == EventsInOrder(ResultOf(s))
            IN ResultOf(s).confluence.primary_system =
                   IF events = <<>> THEN None ELSE events[1].system

\* the first event is a wind_catcher one, a later family's event a river_turn one
C7_Witness ==
    \E s \in Symbols :
        /\ Analyzed(s)
        /\ ResultOf(s).ao_signals # <<>>
        /\ ResultOf(s).ao_signals[1].system = WIND
        /\ ResultOf(s).hull_signals = <<>>
        /\ ResultOf(s).ichimoku_signals # <<>>
        /\ ResultOf(s).ichimoku_signals[1].system = RIVER
        /\ ResultOf(s).volume_signals # <<>>
        /\ ResultOf(s).confluence.primary_system = WIND

\* the families whose detector raised during the call for s
RaisedFamilies(s) ==
    { f \in {"hull", "ao", "alligator", "ichimoku", "volume"} :
        CASE f = "hull" -> analyze_symbol_hull(market, s).raised
          [] f = "ao" -> analyze_symbol_with_ao(market, s).raised
          [] f = "alligator" -> analyze_symbol_alligator(market, s).raised
          [] f = "ichimoku" -> analyze_symbol_ichimoku(market, s).raised
          [] OTHER -> detect_volume_signals(get_price_data(market, s, QueryLimit)).raised }

FamilyList(r, f) ==
    CASE f = "hull" -> r.hull_signals
      [] f = "ao" -> r.ao_signals
      [] f = "alligator" -> r.alligator_signals
      [] f = "ichimoku" -> r.ichimoku_signals
      [] OTHER -> r.volume_signals

\* C8: when one detector family (Hull, AO, Alligator, Ichimoku or Volume) raises
\* during an aggregation, no exception escapes the aggregator, that family
\* contributes zero events, and the other families' events make up the score.
C8_NoDetectorFailureEscapes ==
    \A s \in Symbols :
        (confOut.calls[s].done /\ market[s].rows >= MinRows) =>
            /\ ~confOut.calls[s].out.raised
            /\ \A f \in RaisedFamilies(s) : FamilyList(ResultOf(s), f) = <<>>
            /\ ResultOf(s).confluence.score = ExpectedScore(ResultOf(s))

\* what the detectors of one family emitted for s: the events of the list the
\* analyzer returns and those it detects beside it
EmittedBy(a) == IF a.st = "ok" THEN a.events \o a.other ELSE <<>>

EmittedFor(s) ==
    EmittedBy(market[s].hull) \o EmittedBy(market[s].ao) \o
    EmittedBy(market[s].alligator) \o EmittedBy(market[s].ichimoku)

\* C18: every event emitted by any detector family in an evaluation adds its
\* strength to the confluence score and its description to the factor list,
\* Alligator state transitions and zone exits and Ichimoku cloud colour
\* changes included: none is dropped between the detector and the aggregator.
C18_NoEventDropped ==
    \A s \in Symbols :
        Analyzed(s) =>
            LET emitted == EmittedFor(s)
                r == ResultOf(s)
            IN /\ Len(EventsInOrder(r)) = Len(emitted)
               /\ \A k \in 1..Len(emitted) :
                     \E j \in 1..Len(r.confluence.factors) :
                         r.confluence.factors[j] = emitted[k].description
               /\ r.confluence.score =
                     LET fromEvents == StrengthSum(emitted, Len(emitted))
                     IN IF r.volume_signals = <<>> THEN fromEvents
                        ELSE LET withVolume == FAdd(fromEvents, LatestVolume(r).strength)
                             IN IF 2 * LatestVolume(r).ratio.num >= 3 * LatestVolume(r).ratio.den
                                THEN FAdd(withVolume, F0_3)
                                ELSE withVolume

\* C15: when the stored candle window is too short for a detector to compute,
\* that detector yields an empty event list and raises nothing the aggregator
\* sees; an evaluation on too little history ends without an exception and
\* without a result, so nothing of it is listed or persisted and the loop over
\* the watchlist goes on.
C15_ShortHistoryYieldsNothing ==
    \A s \in Symbols :
        LET n == market[s].rows
            df == get_price_data(market, s, QueryLimit)
        IN /\ n < HullMinRows =>
                 ~analyze_symbol_hull(market, s).raised /\ get_hull_signals(market, s) = <<>>
           /\ n < AoMinRows =>
                 ~analyze_symbol_with_ao(market, s).raised /\ get_ao_signals(market, s) = <<>>
           /\ n < AlligatorMinRows =>
                 /\ ~analyze_symbol_alligator(market, s).raised
                 /\ get_alligator_signals(market, s) = <<>>
           /\ n < IchimokuMinRows =>
                 /\ ~analyze_symbol_ichimoku(market, s).raised
                 /\ get_ichimoku_signals(market, s) = <<>>
           /\ (df # NoValue /\ n < MinBaselineRows) => detect_volume_signals(df) = Returned(<<>>)
           /\ (confOut.calls[s].done /\ n < MinRows) =>
                 /\ confOut.calls[s].out = Returned(NoValue)
                 /\ \A k \in 1..Len(confOut.results) : confOut.results[k] # s
                 /\ confOut.phase # "crashed"

\* the loop has passed a history too short for the volume baseline and for the
\* Hull analyzer, whose candles hold a break on hot volume, and gone on to the
\* next symbol
C15_Witness ==
    /\ market["BTC"].rows > 0
    /\ market["BTC"].rows < MinBaselineRows
    /\ market["BTC"].hull.events # <<>>
    /\ market["BTC"].tail[3] > 2 * market["BTC"].base
    /\ confOut.calls["BTC"].done
    /\ confOut.calls["BTC"].out = Returned(NoValue)
    /\ confOut.calls["ETH"].done

-----------------------------------------------------------------------------
(* Properties of the indicator functions, over what SpecInd has computed *)

QEq(a, b) == ~a.nan /\ ~b.nan /\ a.num * b.den = b.num * a.den

TriangularNumber(p) == (p * (p + 1)) \div 2

\* sum over i = 1..k of i times the i-th oldest value of the p-window ending at t
RECURSIVE WindowFormula(_, _, _, _)
WindowFormula(x, t, p, k) ==
    IF k = 0 THEN 0 ELSE k * x[t - p + k] + WindowFormula(x, t, p, k - 1)

FormulaWma(x, t, p) == Q(WindowFormula(x, t, p, p), TriangularNumber(p))

\* raw[t] = 2 * wma(p / 2) - wma(p) at index t
FormulaRaw(x, t, p) == TwiceMinus(FormulaWma(x, t, p \div 2), FormulaWma(x, t, p))

FormulaSqrt(p) == CHOOSE k \in 0..p : k * k <= p /\ p < (k + 1) * (k + 1)

\* sum over j = 1..k of j times raw[t - s + j]
RECURSIVE RawWindow(_, _, _, _, _)
RawWindow(x, t, p, s, k) ==
    IF k = 0 THEN Q(0, 1)
    ELSE QAdd(QScale(k, FormulaRaw(x, t - s + k, p)), RawWindow(x, t, p, s, k - 1))

\* the WMA over the raw series, of length sqrt(p), ending at t
FormulaHull(x, t, p) ==
    QDivInt(RawWindow(x, t, p, FormulaSqrt(p), FormulaSqrt(p)), TriangularNumber(FormulaSqrt(p)))

StrictlyIncreasing(x) == \A i \in 1..(Len(x) - 1) : x[i] < x[i + 1]

\* len(series) > period + sqrt(period)
LongEnough(x, p) == Len(x) > p /\ (Len(x) - p) * (Len(x) - p) > p

\* C10: for every series and period p >= 1 the WMA is not computed when
\* len(series) < p, and otherwise equals the sum over i = 1..p of i times the
\* i-th oldest value of the trailing p-window divided by p(p+1)/2.
C10_WmaFormula ==
    LET n == Len(inSeries)
        p == inPeriod
    IN /\ indOut.scalar # NoValue =>
            LET w == indOut.scalar.wma
            IN IF n < p THEN w = Returned(NoValue)
               ELSE /\ ~w.raised
                    /\ w.value # NoValue
                    /\ w.value.den > 0
                    /\ QEq(w.value, FormulaWma(inSeries, n, p))
       /\ indOut.series # NoValue =>
            /\ Len(indOut.series.wma) = n
            /\ \A t \in 1..n :
                 IF n < p \/ t < p THEN indOut.series.wma[t].nan
                 ELSE /\ indOut.series.wma[t].den > 0
                      /\ QEq(indOut.series.wma[t], FormulaWma(inSeries, t, p))

\* wma([1,2,3,4,5], 3) = 26/6 from both implementations
C10_Witness ==
    /\ inSeries = <<1, 2, 3, 4, 5>>
    /\ inPeriod = 3
    /\ indOut.scalar # NoValue
    /\ indOut.series # NoValue
    /\ indOut.scalar.wma = Returned(Q(26, 6))
    /\ indOut.series.wma[5] = Q(26, 6)
    /\ indOut.series.wma[2].nan

\* C9: the Hull MA of a series is the WMA over raw = 2*wma(period/2) - wma(period),
\* never the unsmoothed raw value; on a strictly increasing series with
\* len(series) > period + sqrt(period) it differs from the unsmoothed scalar.
\* (Stated for the periods whose smoothing window sqrt(period) holds at least
\* two values, and the series on which the smoothed value is defined.)
C9_HullIsSmoothed ==
    LET n == Len(inSeries)
        p == inPeriod
        s == FormulaSqrt(p)
    IN (s >= 2 /\ n >= p + s - 1) =>
         /\ indOut.scalar # NoValue =>
              /\ ~indOut.scalar.hull.raised
              /\ indOut.scalar.hull.value # NoValue
              /\ QEq(indOut.scalar.hull.value, FormulaHull(inSeries, n, p))
              /\ (StrictlyIncreasing(inSeries) /\ LongEnough(inSeries, p)) =>
                     ~QEq(indOut.scalar.hull.value, FormulaRaw(inSeries, n, p))
         /\ indOut.series # NoValue =>
              /\ QEq(indOut.series.hull[n], FormulaHull(inSeries, n, p))
              /\ (StrictlyIncreasing(inSeries) /\ LongEnough(inSeries, p)) =>
                     ~QEq(indOut.series.hull[n], FormulaRaw(inSeries, n, p))

\* round(sqrt(p)): the integer nearest to the root
RoundedRoot(p) == CHOOSE k \in 0..p : (2 * k - 1) * (2 * k - 1) < 4 * p /\ 4 * p < (2 * k + 1) * (2 * k + 1)

SameNumber(a, b) == (a.nan /\ b.nan) \/ QEq(a, b)

\* C20: in every Hull MA series implementation the fast WMA runs over period/2
\* values and the final smoothing pass is the WMA of 2*fast - full over a
\* window of round(sqrt(period)) values.
C20_FinalWindowIsRoundedRoot ==
    LET n == Len(inSeries)
        p == inPeriod
        prices == CloseSeries(inSeries)
    IN (indOut.series # NoValue /\ n >= p) =>
         /\ LET fast == hull_analyzer_calculate_wma(prices, p \div 2)
                 full == hull_analyzer_calculate_wma(prices, p)
                 raw == [i \in 1..n |-> TwiceMinus(fast[i], full[i])]
                 smooth == hull_analyzer_calculate_wma(raw, RoundedRoot(p))
             IN \A t \in 1..n : SameNumber(indOut.series.hull[t], smooth[t])
         /\ LET fast == indicators_calculate_wma_series(prices, p \div 2)
                 full == indicators_calculate_wma_series(prices, p)
                 raw == [i \in 1..n |-> TwiceMinus(fast[i], full[i])]
                 smooth == indicators_calculate_wma_series(raw, RoundedRoot(p))
             IN \A t \in 1..n : SameNumber(indOut.series.hull_series[t], smooth[t])

-----------------------------------------------------------------------------
(* signal_detector_service.py *)

HoursWindow == 4              \* hours_window=4 at the call of signal_exists_recently
MinScoreDisplay == F1_2       \* config default of min_score_display
TelegramMinScore == F2_5      \* config default of telegram min_score

Entry(symbol, timeframe, direction) ==
    [symbol |-> symbol, timeframe |-> timeframe, direction |-> direction]

\* rows user_watchlists may hold; UNIQUE(symbol, timeframe, direction)
WatchPool ==
    { Entry("BTC", "1h", WIND), Entry("BTC", "1h", RIVER), Entry("ETH", "4h", RIVER) }

SymbolRank(symbol) == IF symbol = "BTC" THEN 1 ELSE 2
TimeframeRank(timeframe) == IF timeframe = "1h" THEN 1 ELSE 2

\* ORDER BY symbol, timeframe
InOrder(a, b) ==
    \/ SymbolRank(a.symbol) < SymbolRank(b.symbol)
    \/ /\ a.symbol = b.symbol
       /\ TimeframeRank(a.timeframe) <= TimeframeRank(b.timeframe)

\* get_watchlist_entries: every row once, sorted; rows with equal keys in any order
get_watchlist_entries(table) ==
    { q \in [1..Cardinality(table) -> table] :
        /\ \A i, j \in 1..Cardinality(table) : i < j => (q[i] # q[j] /\ InOrder(q[i], q[j])) }

signal_exists_recently(table, symbol, timeframe, hours_window, clock) ==
    LET cutoff_time == clock - hours_window * 3600
    IN \E k \in 1..Len(table) :
          /\ table[k].symbol = symbol
          /\ table[k].timeframe = timeframe
          /\ table[k].timestamp >= cutoff_time

SignalType(classification) ==
    CASE classification = "PERFECT" -> "confluence_perfect"
      [] classification = "EXCELLENT" -> "confluence_excellent"
      [] classification = "VERY GOOD" -> "confluence_very_good"
      [] classification = "GOOD" -> "confluence_good"
      [] classification = "INTERESTING" -> "confluence_interesting"
      [] OTHER -> "confluence_weak"

\* save_signal: id is the new row's id, 0 for None.  analysis_result['timeframe']
\* is read first; an error of the INSERT is caught inside and gives None.
save_signal(table, analysis_result, clock, insertFails) ==
    IF "timeframe" \notin DOMAIN analysis_result
    THEN [raised |-> TRUE, exc |-> "KeyError", id |-> 0, table |-> table]
    ELSE IF insertFails
    THEN [raised |-> FALSE, exc |-> "", id |-> 0, table |-> table]
    ELSE LET confluence == analysis_result.confluence
             volume_signals == analysis_result.volume_signals
             row == [id |-> Len(table) + 1,
                     timestamp |-> analysis_result.timestamp,
                     symbol |-> analysis_result.symbol,
                     timeframe |-> analysis_result.timeframe,
                     system |-> confluence.primary_system,
                     signal_type |-> SignalType(confluence.classification),
                     price |-> analysis_result.price,
                     confluence_score |-> confluence.score,
                     confluence_class |-> confluence.classification,
                     volume_level |-> IF volume_signals # <<>>
                                      THEN volume_signals[1].level ELSE "NORMAL",
                     volume_ratio |-> IF volume_signals # <<>>
                                      THEN volume_signals[1].ratio
                                      ELSE [num |-> 1, den |-> 1],
                     notified |-> 0,
                     created_at |-> clock]
         IN [raised |-> FALSE, exc |-> "", id |-> row.id, table |-> Append(table, row)]

\* variant: UPDATE signals SET notified = 1 without the WHERE clause
mark_signal_notified_all(table, signal_id) ==
    [k \in 1..Len(table) |-> [table[k] EXCEPT !.notified = 1]]

mark_signal_notified(table, signal_id) ==
    [k \in 1..Len(table) |->
        IF table[k].id = signal_id THEN [table[k] EXCEPT !.notified = 1] ELSE table[k]]

\* variant: only scores above the threshold pass
should_send_alert_above(b, signal) ==
    IF b # "enabled" THEN FALSE
    ELSE ~FGe(TelegramMinScore, signal.confluence.score)

\* telegram_bot.should_send_alert
should_send_alert(b, signal) ==
    IF b # "enabled" THEN FALSE
    ELSE FGe(signal.confluence.score, TelegramMinScore)

\* the call at the top of the try block, with the arguments it passes
CallAnalyze(args) ==
    IF Len(args) # Len(analyze_master_confluence_params) THEN Raised("TypeError")
    ELSE analyze_master_confluence(args[1], args[2])

\* get_price_data(conn, symbol, timeframe='1h', limit=200) in the aggregator
\* and in each analyzer
AnalyzerTimeframe == "1h"

\* the timeframe of the candle series the call reads: none when the call is
\* refused before the body runs, else the one the body names
SeriesRead(args) ==
    IF Len(args) # Len(analyze_master_confluence_params) THEN None
    ELSE AnalyzerTimeframe

Outcome(table, found, id, alerts, errors, exc) ==
    [table |-> table, found |-> found, id |-> id, alerts |-> alerts,
     errors |-> errors, exc |-> exc]

\* The ways the try block of the loop body can end for one entry, one Outcome
\* each; exc names the exception that reaches the handler of the loop, "" when
\* none does.  The block in three stages:

\* the Telegram alert for a saved signal: sent, refused, or an error of the bot
NotifyOutcomes(entry, result, saved, b) ==
    IF b = "none" \/ ~should_send_alert(b, result)
    THEN { Outcome(saved.table, 1, saved.id, 0, <<>>, "") }
    ELSE { Outcome(mark_signal_notified(saved.table, saved.id), 1, saved.id, 1, <<>>, ""),
           Outcome(saved.table, 1, saved.id, 0, <<>>, ""),
           Outcome(saved.table, 1, saved.id, 0,
                   <<[entry |-> entry, exc |-> "Telegram error"]>>, "") }

\* save_signal and  if signal_id:
SaveOutcomes(entry, result, table, clock, b) ==
    UNION { LET saved == save_signal(table, result, clock, insertFails)
            IN IF saved.raised THEN { Outcome(table, 1, 0, 0, <<>>, saved.exc) }
               ELSE IF saved.id = 0 THEN { Outcome(table, 1, 0, 0, <<>>, "") }
               ELSE NotifyOutcomes(entry, result, saved, b)
            : insertFails \in BOOLEAN }

\* variant: the direction of the entry is not held against the result
FilterOutcomes_undirected(entry, result, table, clock, b) ==
    IF result = NoValue THEN { Outcome(table, 0, 0, 0, <<>>, "") }
    ELSE IF FLt(result.confluence.score, MinScoreDisplay)
    THEN { Outcome(table, 0, 0, 0, <<>>, "") }
    ELSE IF signal_exists_recently(table, entry.symbol, entry.timeframe, HoursWindow, clock)
    THEN { Outcome(table, 1, 0, 0, <<>>, "") }
    ELSE SaveOutcomes(entry, result, table, clock, b)

\* the filters on the result and the dedup window
FilterOutcomes(entry, result, table, clock, b) ==
    IF result = NoValue THEN { Outcome(table, 0, 0, 0, <<>>, "") }
    ELSE IF FLt(result.confluence.score, MinScoreDisplay)
    THEN { Outcome(table, 0, 0, 0, <<>>, "") }
    ELSE IF result.confluence.primary_system # entry.direction
    THEN { Outcome(table, 0, 0, 0, <<>>, "") }
    ELSE IF signal_exists_recently(table, entry.symbol, entry.timeframe, HoursWindow, clock)
    THEN { Outcome(table, 1, 0, 0, <<>>, "") }
    ELSE SaveOutcomes(entry, result, table, clock, b)

TryEntry(entry, db, table, clock, b) ==
    LET result == CallAnalyze(<<db, entry.symbol, entry.timeframe>>)
    IN IF result.raised THEN { Outcome(table, 0, 0, 0, <<>>, result.exc) }
       ELSE FilterOutcomes(entry, result.value, table, clock, b)

\* variant: an exception ends the loop
NextEntry_abort(i, count, exc) == IF exc # "" THEN count + 1 ELSE i + 1

\* where the for loop goes after an entry: the handler swallows the exception
NextEntry(i, count, exc) == i + 1

\* what the aggregator yields for the entry's symbol, held against the filters
\* and the dedup window of the loop
Qualifies(entry, db, table, clock) ==
    LET r == analyze_master_confluence(db, entry.symbol)
    IN /\ ~r.raised
       /\ r.value # NoValue
       /\ FGe(r.value.confluence.score, MinScoreDisplay)
       /\ r.value.confluence.primary_system = entry.direction
       /\ ~signal_exists_recently(table, entry.symbol, entry.timeframe, HoursWindow, clock)

-----------------------------------------------------------------------------
(* Spec: the detection service beside the collector and the clock *)

MaxTicks == 1        \* hours the clock advances
MaxClock == LatestTimestamp + MaxTicks * CandleSeconds

\* what the store may hold for a symbol once its latest candle is the one at ts:
\* a quiet market, a bullish Hull break on hot volume (1.8, wind_catcher), a
\* bearish break with a bearish divergence on hot volume (2.6, river_turn),
\* candles without any trade, and a bullish break on hot volume in a history
\* one candle short of the aggregator's minimum
ServiceSnapshots(ts) ==
    LET quiet == [base |-> BaseVolume, tail |-> <<BaseVolume, BaseVolume, BaseVolume>>]
        hot == [base |-> BaseVolume, tail |-> <<BaseVolume, BaseVolume, (22 * BaseVolume) \div 10>>]
        bull == RawEvent("hull_bullish_break", WIND, "First close above Hull 21", F0_7, "", "")
        bear == RawEvent("hull_bearish_break", RIVER, "First close below Hull 21", F0_7, "", "")
        none == AnalyzerOk(<<>>)
    IN { Snapshot(MinRows, ts, quiet, none, none, none, none),
         Snapshot(MinRows, ts, hot, AnalyzerOk(<<bull>>), none, none, none),
         Snapshot(MinRows, ts, hot, AnalyzerOk(<<bear>>), AnalyzerOk(<<AoBearish>>), none, none),
         Snapshot(MinRows, ts, [base |-> 0, tail |-> <<0, 0, 0>>], none, none, none, none),
         Snapshot(MinRows - 1, ts, hot, AnalyzerOk(<<bull>>), none, none, none) }

\* a row the signals table holds from before (migrate_database copies signals_old)
MigratedRow ==
    [id |-> 1, timestamp |-> LatestTimestamp - CandleSeconds, symbol |-> "BTC",
     timeframe |-> "1h", system |-> WIND, signal_type |-> "hull_bullish_break",
     price |-> 100, confluence_score |-> NoValue, confluence_class |-> None,
     volume_level |-> None, volume_ratio |-> None, notified |-> 0,
     created_at |-> LatestTimestamp - CandleSeconds]

Init ==
    /\ market \in [Symbols -> ServiceSnapshots(LatestTimestamp)]
    /\ watchlist \in SUBSET WatchPool
    /\ signals \in { <<>>, <<MigratedRow>> }
    /\ now = LatestTimestamp
    /\ bot \in {"none", "disabled", "enabled"}
    /\ pc = "sleeping"
    /\ entries = <<>>
    /\ idx = 1
    /\ stats = FreshStats
    /\ scanlog = <<>>
    /\ IdleConf
    /\ IdleInd
    /\ IdleUnits

\* run_once up to the for loop: stats, the fetch, the early return on no entries
StartCycle ==
    /\ pc = "sleeping"
    /\ \E fetched \in get_watchlist_entries(watchlist) :
          /\ entries' = fetched
          /\ pc' = IF fetched = <<>> THEN "returned" ELSE "scanning"
    /\ stats' = FreshStats
    /\ idx' = 1
    /\ scanlog' = <<>>
    /\ UNCHANGED <<unitVars, market, confOut, indVars, watchlist, signals, now, bot>>

\* one pass of  for symbol, timeframe, direction in watchlist
ScanEntry ==
    /\ pc = "scanning"
    /\ idx <= Len(entries)
    /\ \E r \in TryEntry(entries[idx], market, signals, now, bot) :
          LET entry == entries[idx]
              caught == IF r.exc = "" THEN <<>> ELSE <<[entry |-> entry, exc |-> r.exc]>>
          IN /\ stats' = [scanned |-> stats.scanned + 1,
                          signals_found |-> stats.signals_found + r.found,
                          signals_saved |-> stats.signals_saved + (IF r.id # 0 THEN 1 ELSE 0),
                          alerts_sent |-> stats.alerts_sent + r.alerts,
                          errors |-> stats.errors \o r.errors \o caught]
             /\ signals' = r.table
             /\ idx' = NextEntry(idx, Len(entries), r.exc)
             /\ scanlog' = Append(scanlog,
                                  [entry |-> entry,
                                   qualified |-> Qualifies(entry, market, signals, now),
                                   series |-> SeriesRead(<<market, entry.symbol, entry.timeframe>>),
                                   exc |-> r.exc,
                                   saved |-> r.id,
                                   added |-> Len(r.table) - Len(signals),
                                   alerted |-> r.alerts])
    /\ UNCHANGED <<unitVars, market, confOut, indVars, watchlist, now, bot, pc, entries>>

\* return stats
ReturnStats ==
    /\ pc = "scanning"
    /\ idx > Len(entries)
    /\ pc' = "returned"
    /\ UNCHANGED <<unitVars, market, confOut, indVars, watchlist, signals, now, bot, entries, idx, stats, scanlog>>

\* run_once raises before the for loop: connect_to_database or the query of
\* get_watchlist_entries fails.  except Exception of run_continuous prints it.
CycleFails ==
    /\ pc = "sleeping"
    /\ pc' = "failed"
    /\ UNCHANGED <<unitVars, market, confOut, indVars, watchlist, signals, now, bot, entries, idx, stats, scanlog>>

\* variant: an exception of the cycle ends the loop
AfterCycle_raise(ended) == IF ended = "failed" THEN "crashed" ELSE "sleeping"

\* where run_continuous goes once run_once has returned or raised an Exception
AfterCycle(ended) == "sleeping"

\* run_continuous: the summary or the error is printed and the service sleeps
Sleep ==
    /\ pc \in {"returned", "failed"}
    /\ pc' = AfterCycle(pc)
    /\ UNCHANGED <<unitVars, market, confOut, indVars, watchlist, signals, now, bot, entries, idx, stats, scanlog>>

\* an hour passes
Tick ==
    /\ now < MaxClock
    /\ now' = now + CandleSeconds
    /\ UNCHANGED <<unitVars, market, confOut, indVars, watchlist, signals, bot, pc, entries, idx, stats, scanlog>>

\* the collector stores the candle of the hour for one symbol
Collect ==
    /\ \E symbol \in Symbols :
          /\ market[symbol].ts < now
          /\ \E snap \in ServiceSnapshots(now) :
                market' = [market EXCEPT ![symbol] = snap]
    /\ UNCHANGED <<unitVars, confOut, indVars, serviceVars>>

\* Ctrl+C while run_once is running.  KeyboardInterrupt is no Exception: the
\* handler of the loop body does not catch it, it leaves scan_watchlists and
\* run_once (stats is lost to the caller) and run_continuous breaks at its
\* except KeyboardInterrupt.  It arrives at the head of the for loop, or inside
\* the body of an entry: scanned is counted and the rest of the body, from the
\* point reached, is abandoned.
InterruptScan ==
    /\ pc \in {"scanning", "returned", "failed"}
    /\ \/ UNCHANGED <<stats, signals>>
       \/ /\ pc = "scanning"
          /\ idx <= Len(entries)
          /\ stats' = [stats EXCEPT !.scanned = @ + 1]
          /\ \E r \in TryEntry(entries[idx], market, signals, now, bot) :
                signals' \in {signals, r.table}
    /\ pc' = "stopped"
    /\ UNCHANGED <<unitVars, market, confOut, indVars, watchlist, now, bot, entries, idx, scanlog>>

\* Ctrl+C during time.sleep(self.scan_interval)
InterruptSleep ==
    /\ pc = "sleeping"
    /\ pc' = "stopped"
    /\ UNCHANGED <<unitVars, market, confOut, indVars, watchlist, signals, now, bot, entries, idx, stats, scanlog>>

Next ==
    \/ StartCycle \/ CycleFails \/ ScanEntry \/ ReturnStats \/ Sleep \/ Tick \/ Collect
    \/ InterruptScan \/ InterruptSleep

Spec == Init /\ [][Next]_vars

\* the thread of run_continuous keeps running: each step of the loop that can
\* be taken is taken; Ctrl+C, the clock and the collector are under no duty
LiveInit ==
    /\ Init
    /\ market \in { [s \in Symbols |-> snap] : snap \in ServiceSnapshots(LatestTimestamp) }
    /\ watchlist \in { {}, WatchPool }
    /\ signals = <<>>
    /\ bot = "enabled"

\* what a pass of the for loop does to its position: the body of an entry always
\* ends, by its return, its continue or its except clause.  Of the steps of
\* Next, those of ScanEntry and no others move idx this way.
EntryDone ==
    /\ pc = "scanning"
    /\ idx <= Len(entries)
    /\ idx' = NextEntry(idx, Len(entries), "")

SpecLive ==
    /\ LiveInit
    /\ [][Next]_vars
    /\ WF_vars(StartCycle \/ CycleFails)
    /\ WF_idx(EntryDone)
    /\ WF_vars(ReturnStats)
    /\ WF_vars(Sleep)

-----------------------------------------------------------------------------
(* Properties of the scan cycle *)

\* entries of the running cycle that an exception was caught for
CaughtFor(k) ==
    \E e \in 1..Len(stats.errors) :
        /\ stats.errors[e].entry = scanlog[k].entry
        /\ stats.errors[e].exc = scanlog[k].exc

\* C4: an exception raised for one watchlist entry is caught inside the scan
\* cycle and recorded in the cycle's error list, and the remaining entries are
\* still processed: when scan_watchlists returns, the scanned count equals the
\* number of watchlist entries.
C4_EntryFailureIsolated ==
    /\ pc = "returned" =>
          /\ stats.scanned = Len(entries)
          /\ Len(scanlog) = Len(entries)
          /\ \A k \in 1..Len(entries) : scanlog[k].entry = entries[k]
    /\ \A k \in 1..Len(scanlog) : scanlog[k].exc # "" => CaughtFor(k)

\* a returned cycle over two entries whose first entry raised
C4_Witness ==
    /\ pc = "returned"
    /\ Len(entries) >= 2
    /\ scanlog[1].exc # ""
    /\ Len(stats.errors) >= 1
    /\ stats.scanned = Len(entries)
    /\ Len(scanlog) = Len(entries)

\* C2: in a scan cycle every watchlist entry whose evaluation yields a score at
\* or above the minimum display threshold and a primary_system equal to the
\* entry's direction, with no Signal inside the dedup window, is persisted as
\* exactly one new Signal during that cycle.
C2_QualifyingEntryPersisted ==
    \A k \in 1..Len(scanlog) :
        scanlog[k].qualified => (scanlog[k].saved # 0 /\ scanlog[k].added = 1)

\* C17: for a watchlist entry (symbol, timeframe, direction) the evaluation of
\* the scan cycle is computed from the candle series of the entry's own
\* timeframe.
C17_EvaluatedOnOwnTimeframe ==
    \A k \in 1..Len(scanlog) : scanlog[k].series = scanlog[k].entry.timeframe

\* every evaluation of the service ends in the TypeError of the call, and the
\* signals table is never written
EveryEvaluationRaises ==
    /\ \A k \in 1..Len(scanlog) : scanlog[k].exc = "TypeError" /\ scanlog[k].saved = 0
    /\ stats.signals_found = 0
    /\ stats.signals_saved = 0
    /\ signals \in { <<>>, <<MigratedRow>> }

-----------------------------------------------------------------------------
(* SpecBot: a TelegramBot as test_telegram.py and the service drive it *)

F1_5 == <<100663296, 0>>            \* 1.5
F2_0 == <<134217728, 0>>            \* 2.0
F3_5 == <<234881024, 0>>            \* 3.5

MaxCalls == 2        \* calls made on the bot

\* the signals of test_should_send_alert
BotTestSignals == { [confluence |-> [score |-> sc]] : sc \in {F3_5, F2_5, F2_0, F1_5} }

\* send_message: False when the bot is disabled, else whether the request got a 200
send_message(b, delivered) == IF b # "enabled" THEN FALSE ELSE delivered

\* send_signal_alert: the filter first, then the formatted message is sent
send_signal_alert(b, signal, delivered) ==
    IF ~should_send_alert(b, signal) THEN FALSE
    ELSE send_message(b, delivered)

BotCall(op, signal, result) == [op |-> op, score |-> signal.confluence.score, result |-> result]

BotInit ==
    /\ IdleEval
    /\ IdleRetrace
    /\ IdleCollect
    /\ IdleDivergence
    /\ IdleKijun
    /\ IdleTransitions
    /\ bot \in {"disabled", "enabled"}
    /\ botLog = <<>>
    /\ watchlist = {}
    /\ signals = <<>>
    /\ now = 0
    /\ pc = "sleeping"
    /\ entries = <<>>
    /\ idx = 1
    /\ stats = FreshStats
    /\ scanlog = <<>>
    /\ market = [s \in Symbols |-> EmptySnapshot]
    /\ IdleConf
    /\ IdleInd
    /\ IdleGator
    /\ IdleHull
    /\ IdleDedup

BotShouldSend ==
    /\ Len(botLog) < MaxCalls
    /\ \E signal \in BotTestSignals :
          botLog' = Append(botLog, BotCall("should_send_alert", signal,
                                           should_send_alert(bot, signal)))
    /\ UNCHANGED <<market, confOut, indVars, serviceVars, gator, candles, detected, dedup, alligatorLog, kijunLog, aoLog, priceData, retraceLog, evalLog>>

BotSendAlert ==
    /\ Len(botLog) < MaxCalls
    /\ \E signal \in BotTestSignals, delivered \in BOOLEAN :
          botLog' = Append(botLog, BotCall("send_signal_alert", signal,
                                           send_signal_alert(bot, signal, delivered)))
    /\ UNCHANGED <<market, confOut, indVars, serviceVars, gator, candles, detected, dedup, alligatorLog, kijunLog, aoLog, priceData, retraceLog, evalLog>>

BotNext == BotShouldSend \/ BotSendAlert

SpecBot == BotInit /\ [][BotNext]_vars

-----------------------------------------------------------------------------
(* Stopping the service *)

\* C25: the service alternates idle, scanning, idle for ever: after every scan
\* cycle, one that ended with an exception included, it sleeps and then starts
\* another cycle; only a stop request ends the loop.
C25_ServiceKeepsCycling ==
    /\ [][(pc # "stopped" /\ pc' = "stopped") => (InterruptScan \/ InterruptSleep)]_vars
    /\ [](pc \in {"sleeping", "scanning", "returned", "failed", "stopped"})
    /\ (pc \in {"returned", "failed"}) ~> (pc \in {"sleeping", "stopped"})
    /\ (pc = "sleeping") ~> (pc \in {"scanning", "returned", "failed", "stopped"})
    /\ (pc = "scanning") ~> (pc \in {"returned", "stopped"})

\* the service sleeps again after a cycle in which an entry raised
C25_Witness ==
    /\ pc = "sleeping"
    /\ Len(scanlog) >= 1
    /\ scanlog[1].exc # ""
    /\ stats.errors # <<>>

\* C12: a scan cycle is interrupted only between watchlist entries: once the
\* processing of an entry has begun it runs to completion before the service
\* stops, so a stopped service has completed every entry it counted as scanned.
C12_StopsOnlyBetweenEntries ==
    pc = "stopped" => stats.scanned = Len(scanlog)

-----------------------------------------------------------------------------
(* SpecGator: alligator_analyzer.determine_alligator_state.  Line values are *)
(* fractions or NaN, as the rolling means of the frame are.                  *)

QLess(a, b) == a.num * b.den < b.num * a.den

Max3(a, b, c) ==
    LET ab == IF QLess(a, b) THEN b ELSE a
    IN IF QLess(ab, c) THEN c ELSE ab
Min3(a, b, c) ==
    LET ab == IF QLess(b, a) THEN b ELSE a
    IN IF QLess(c, ab) THEN c ELSE ab

\* threshold_pct=0.15, in percent
ThresholdPct == Q(15, 100)

GatorState(state, spread, direction) ==
    [state |-> state, spread |-> spread, direction |-> direction]

\* variant: ordered lines are awake whatever the spread
determine_alligator_state_ordered(jaw, teeth, lips) ==
    IF jaw.nan \/ teeth.nan \/ lips.nan THEN GatorState("unknown", Q(0, 1), "none")
    ELSE LET max_val == Max3(jaw, teeth, lips)
             min_val == Min3(jaw, teeth, lips)
         IN IF max_val.num = 0 THEN GatorState("unknown", Q(0, 1), "none")
            ELSE LET spread_pct == Q(100 * (max_val.num * min_val.den - min_val.num * max_val.den),
                                     min_val.den * max_val.num)
                 IN IF QLess(teeth, lips) /\ QLess(jaw, teeth)
                    THEN GatorState("awake", spread_pct, "bullish")
                    ELSE IF QLess(lips, teeth) /\ QLess(teeth, jaw)
                    THEN GatorState("awake", spread_pct, "bearish")
                    ELSE IF ~QLess(ThresholdPct, spread_pct)
                    THEN GatorState("sleeping", spread_pct, "consolidation")
                    ELSE GatorState("awake", spread_pct, "mixed")

\* spread_pct = ((max_val - min_val) / max_val) * 100
determine_alligator_state(jaw, teeth, lips) ==
    IF jaw.nan \/ teeth.nan \/ lips.nan THEN GatorState("unknown", Q(0, 1), "none")
    ELSE LET max_val == Max3(jaw, teeth, lips)
             min_val == Min3(jaw, teeth, lips)
         IN IF max_val.num = 0 THEN GatorState("unknown", Q(0, 1), "none")
            ELSE LET spread_pct == Q(100 * (max_val.num * min_val.den - min_val.num * max_val.den),
                                     min_val.den * max_val.num)
                 IN IF ~QLess(ThresholdPct, spread_pct)
                    THEN GatorState("sleeping", spread_pct, "consolidation")
                    ELSE IF QLess(teeth, lips) /\ QLess(jaw, teeth)
                    THEN GatorState("awake", spread_pct, "bullish")
                    ELSE IF QLess(lips, teeth) /\ QLess(teeth, jaw)
                    THEN GatorState("awake", spread_pct, "bearish")
                    ELSE GatorState("awake", spread_pct, "mixed")

MaxEvals == 2        \* evaluations of the same line values

\* means of a price near 2000: spreads of 0.05% to 0.2% between them
LineValues == {NaN, Q(0, 1), Q(1996, 1), Q(1997, 1), Q(1998, 1), Q(1999, 1), Q(2000, 1)}

GatorInit ==
    /\ IdleEval
    /\ IdleRetrace
    /\ IdleCollect
    /\ IdleDivergence
    /\ IdleKijun
    /\ IdleTransitions
    /\ gator \in [jaw : LineValues, teeth : LineValues, lips : LineValues, evals : {<<>>}]
    /\ market = [s \in Symbols |-> EmptySnapshot]
    /\ IdleConf
    /\ IdleInd
    /\ IdleService
    /\ IdleBot
    /\ IdleHull
    /\ IdleDedup

GatorEvaluate ==
    /\ Len(gator.evals) < MaxEvals
    /\ gator' = [gator EXCEPT !.evals =
                    Append(@, determine_alligator_state(gator.jaw, gator.teeth, gator.lips))]
    /\ UNCHANGED <<market, confOut, indVars, serviceVars, botLog, candles, detected, dedup, alligatorLog, kijunLog, aoLog, priceData, retraceLog, evalLog>>

GatorNext == GatorEvaluate

SpecGator == GatorInit /\ [][GatorNext]_vars

\* the three lines as integers, and the largest and smallest of them
GatorDefined == ~gator.jaw.nan /\ ~gator.teeth.nan /\ ~gator.lips.nan
GatorLines == {gator.jaw.num, gator.teeth.num, gator.lips.num}
GatorMax == CHOOSE v \in GatorLines : \A w \in GatorLines : w <= v
GatorMin == CHOOSE v \in GatorLines : \A w \in GatorLines : v <= w

\* C13: for defined line values the state is 'sleeping' exactly when
\* (max - min) / max <= 0.15%, whatever the order of the lines, and otherwise
\* 'awake' with direction bullish iff lips > teeth > jaw, bearish iff
\* lips < teeth < jaw, mixed otherwise; evaluating the same inputs twice gives
\* the identical state, spread and direction.
C13_AlligatorState ==
    /\ \A k \in 1..Len(gator.evals) : gator.evals[k] = gator.evals[1]
    /\ (GatorDefined /\ GatorMax > 0) =>
         \A k \in 1..Len(gator.evals) :
            LET e == gator.evals[k]
                narrow == 10000 * (GatorMax - GatorMin) <= 15 * GatorMax
                up == gator.lips.num > gator.teeth.num /\ gator.teeth.num > gator.jaw.num
                down == gator.lips.num < gator.teeth.num /\ gator.teeth.num < gator.jaw.num
            IN /\ ((e.state = "sleeping") <=> narrow)
               /\ ~narrow => e.state = "awake"
               /\ ~narrow => ((e.direction = "bullish") <=> up)
               /\ ~narrow => ((e.direction = "bearish") <=> down)
               /\ ~narrow => ((e.direction = "mixed") <=> (~up /\ ~down))
               /\ e.spread.den > 0
               /\ e.spread.num * GatorMax = 100 * (GatorMax - GatorMin) * e.spread.den

\* a spread of 0.1% with the lines in bullish order, evaluated twice: sleeping
C13_Witness ==
    /\ gator.lips = Q(2000, 1)
    /\ gator.teeth = Q(1999, 1)
    /\ gator.jaw = Q(1998, 1)
    /\ Len(gator.evals) = 2
    /\ gator.evals[1].state = "sleeping"
    /\ gator.evals[2] = gator.evals[1]
    /\ gator.evals[1].spread.num * 10 = gator.evals[1].spread.den

-----------------------------------------------------------------------------
(* SpecHull: enhanced_hull_analyzer.detect_hull_breaks and                   *)
(* detect_hull_cross_retests on a frame.  A frame holds the last rows of df  *)
(* with the hull_21 and hull_34 columns (warm: both are numbers, not NaN),   *)
(* the volume column in the form of price_data above, and the timestamp of   *)
(* the latest row.                                                           *)

MinBreakRows == 3         \* enhanced_hull_analyzer.py:77
Lookback == 20            \* enhanced_hull_analyzer.py:109
CrossGuard == 5           \* enhanced_hull_analyzer.py:117
RetestSpan == 15          \* enhanced_hull_analyzer.py:143
RecentHours == 12         \* enhanced_hull_analyzer.py:191

Candle(close, high, low, hull_21, hull_34) ==
    [close |-> close, high |-> high, low |-> low,
     hull_21 |-> hull_21, hull_34 |-> hull_34, warm |-> TRUE]

HullEvent(type, system, description, strength, timestamp, retest_line) ==
    [type |-> type, system |-> system, description |-> description,
     strength |-> strength, timestamp |-> timestamp, retest_line |-> retest_line]

\* df['timestamp'].iloc[k - 1] of a frame of hourly candles
FrameTs(df, k) == df.ts - (Len(df.rows) - k) * CandleSeconds

\* variant: the previous close has to be on the far side of the line
detect_hull_breaks_strict(df) ==
    LET n == Len(df.rows)
    IN IF n < MinBreakRows THEN <<>>
       ELSE LET latest == df.rows[n]
                prev == df.rows[n - 1]
            IN IF ~(latest.warm /\ prev.warm) THEN <<>>
               ELSE IF latest.close > latest.hull_21 /\ prev.close < prev.hull_21
               THEN << HullEvent("hull_bullish_break", WIND, "First close above Hull 21",
                                 F0_7, FrameTs(df, n), "") >>
               ELSE IF latest.close < latest.hull_21 /\ prev.close > prev.hull_21
               THEN << HullEvent("hull_bearish_break", RIVER, "First close below Hull 21",
                                 F0_7, FrameTs(df, n), "") >>
               ELSE <<>>

detect_hull_breaks(df) ==
    LET n == Len(df.rows)
    IN IF n < MinBreakRows THEN <<>>
       ELSE LET latest == df.rows[n]
                prev == df.rows[n - 1]
            IN IF ~(latest.warm /\ prev.warm) THEN <<>>
               ELSE IF latest.close > latest.hull_21 /\ prev.close <= prev.hull_21
               THEN << HullEvent("hull_bullish_break", WIND, "First close above Hull 21",
                                 F0_7, FrameTs(df, n), "") >>
               ELSE IF latest.close < latest.hull_21 /\ prev.close >= prev.hull_21
               THEN << HullEvent("hull_bearish_break", RIVER, "First close below Hull 21",
                                 F0_7, FrameTs(df, n), "") >>
               ELSE <<>>

\* the row before row k; iloc[-1] of the first row is the last row
RowBefore(df, k) == IF k = 1 THEN df.rows[Len(df.rows)] ELSE df.rows[k - 1]

\* 'bullish', 'bearish' or None for a cross of hull_21 over hull_34 at row k
CrossAt(df, k) ==
    LET curr == df.rows[k]
        prev == RowBefore(df, k)
    IN IF ~(curr.warm /\ prev.warm) THEN None
       ELSE IF curr.hull_21 > curr.hull_34 /\ prev.hull_21 <= prev.hull_34 THEN "bullish"
       ELSE IF curr.hull_21 < curr.hull_34 /\ prev.hull_21 >= prev.hull_34 THEN "bearish"
       ELSE None

\* the line row j retests after a cross of cross_type, None when it retests none
RetestLine(c, cross_type) ==
    IF cross_type = "bullish"
    THEN (IF c.low <= c.hull_34 /\ c.hull_34 <= c.high /\ c.close >= c.hull_34 THEN "Hull 34"
          ELSE IF c.low <= c.hull_21 /\ c.hull_21 <= c.high /\ c.close >= c.hull_21 THEN "Hull 21"
          ELSE None)
    ELSE (IF c.low <= c.hull_34 /\ c.hull_34 <= c.high /\ c.close <= c.hull_34 THEN "Hull 34"
          ELSE IF c.low <= c.hull_21 /\ c.hull_21 <= c.high /\ c.close <= c.hull_21 THEN "Hull 21"
          ELSE None)

RetestEvent(df, j, cross_type, retest_line) ==
    HullEvent(IF cross_type = "bullish" THEN "hull_cross_retest_bullish"
                                        ELSE "hull_cross_retest_bearish",
              IF cross_type = "bullish" THEN WIND ELSE RIVER,
              IF cross_type = "bullish"
              THEN (IF retest_line = "Hull 34" THEN "Hull 34 support retest after cross"
                                               ELSE "Hull 21 support retest after cross")
              ELSE (IF retest_line = "Hull 34" THEN "Hull 34 resistance retest after cross"
                                               ELSE "Hull 21 resistance retest after cross"),
              IF retest_line = "Hull 34" THEN F0_8 ELSE F0_6,
              FrameTs(df, j), retest_line)

\* for j in range(i + 1, min(i + 15, len(df))), from row j to row last: the
\* events appended for the cross.  The break sits inside the recency test.
RECURSIVE ScanRetests(_, _, _, _)
ScanRetests(df, j, last, cross_type) ==
    IF j > last THEN <<>>
    ELSE IF ~df.rows[j].warm THEN ScanRetests(df, j + 1, last, cross_type)
    ELSE LET retest_line == RetestLine(df.rows[j], cross_type)
             recent == FrameTs(df, Len(df.rows)) - FrameTs(df, j) <= RecentHours * 3600
         IN IF retest_line # None /\ recent
            THEN << RetestEvent(df, j, cross_type, retest_line) >>
            ELSE ScanRetests(df, j + 1, last, cross_type)

\* for i in range(len(df) - lookback, len(df) - 5), from row k on
RECURSIVE ScanCrosses(_, _)
ScanCrosses(df, k) ==
    IF k > Len(df.rows) - CrossGuard THEN <<>>
    ELSE LET cross_type == CrossAt(df, k)
             found == IF cross_type = None THEN <<>>
                      ELSE ScanRetests(df, k + 1,
                                       Min2(k + RetestSpan - 1, Len(df.rows)), cross_type)
         IN found \o ScanCrosses(df, k + 1)

detect_hull_cross_retests(df) ==
    IF Len(df.rows) < Lookback THEN <<>>
    ELSE ScanCrosses(df, Len(df.rows) - Lookback + 1)

FrameLen == 22       \* rows of a frame

Frame(rows, vol) == [rows |-> rows, vol |-> vol, ts |-> LatestTimestamp]

QuietVolume == [base |-> BaseVolume, tail |-> <<BaseVolume, BaseVolume, BaseVolume>>]

\* frames around a flat Hull 21 = Hull 34 = 100: the last two closes are
\* below, on or above the line
BreakFrames ==
    { Frame([k \in 1..FrameLen |->
                LET close == IF k = FrameLen - 1 THEN prev
                             ELSE IF k = FrameLen THEN latest ELSE 100
                IN Candle(close, close + 1, close - 1, 100, 100)],
            vol) :
        prev \in {99, 100, 101}, latest \in {99, 100, 101}, vol \in VolumeColumns }

\* hours before the latest row at which a frame has its cross, and at which a
\* candle may come back to the lines
CrossHoursAgo == {19, 14, 5}
RetestHoursAgo == {18, 13, 12, 8, 4, 0}
RetestMarks ==
    { m \in SUBSET (RetestHoursAgo \X {"touch34", "touch21"}) :
        /\ Cardinality(m) <= 2
        /\ \A a, b \in m : a[1] = b[1] => a = b }

\* a candle after the cross: far from both lines, or with Hull 34 or Hull 21
\* inside its range and the close on the side of the cross
CrossCandle(cross_type, kind, hull_21) ==
    IF cross_type = "bullish"
    THEN (CASE kind = "touch34" -> Candle(101, 101, 99, hull_21, 100)
            [] kind = "touch21" -> Candle(103, 104, 101, hull_21, 100)
            [] OTHER -> Candle(115, 120, 110, hull_21, 100))
    ELSE (CASE kind = "touch34" -> Candle(99, 101, 99, hull_21, 100)
            [] kind = "touch21" -> Candle(97, 99, 96, hull_21, 100)
            [] OTHER -> Candle(85, 90, 80, hull_21, 100))

\* frames with one cross of Hull 21 over a flat Hull 34 = 100
CrossFrames ==
    { Frame([k \in 1..FrameLen |->
                LET ago == FrameLen - k
                    after == ago <= cross
                    hull_21 == IF (cross_type = "bullish") = after THEN 102 ELSE 98
                    marked == { m \in marks : m[1] = ago /\ ago < cross }
                    kind == IF marked = {} THEN "far" ELSE (CHOOSE m \in marked : TRUE)[2]
                IN CrossCandle(cross_type, kind, hull_21)],
            QuietVolume) :
        cross_type \in {"bullish", "bearish"}, cross \in CrossHoursAgo, marks \in RetestMarks }

HullInit ==
    /\ IdleEval
    /\ IdleRetrace
    /\ IdleCollect
    /\ IdleDivergence
    /\ IdleKijun
    /\ IdleTransitions
    /\ candles \in BreakFrames \cup CrossFrames
    /\ detected = NoValue
    /\ market = [s \in Symbols |-> EmptySnapshot]
    /\ IdleConf
    /\ IdleInd
    /\ IdleService
    /\ IdleBot
    /\ IdleGator
    /\ IdleDedup

\* analyze_symbol_hull: the two detectors on the frame
HullDetect ==
    /\ detected = NoValue
    /\ LET hull_breaks == detect_hull_breaks(candles)
           cross_retests == detect_hull_cross_retests(candles)
       IN detected' = [hull_breaks |-> hull_breaks, cross_retests |-> cross_retests,
                       all_signals |-> hull_breaks \o cross_retests,
                       confluence |-> NoValue]
    /\ UNCHANGED <<market, confOut, indVars, serviceVars, botLog, gator, candles, dedup, alligatorLog, kijunLog, aoLog, priceData, retraceLog, evalLog>>

\* analyze_master_confluence on the Hull signals alone: the volume readings
\* of the frame and the score
HullAggregate ==
    /\ detected # NoValue
    /\ detected.confluence = NoValue
    /\ LET df == [n |-> MinRows, ts |-> candles.ts, close |-> candles.rows[FrameLen].close,
                  base |-> candles.vol.base, tail |-> candles.vol.tail]
           volume == detect_volume_signals(df)
       IN detected' = [detected EXCEPT !.confluence =
                         IF volume.raised THEN Raised(volume.exc)
                         ELSE Returned([volume_signals |-> volume.value,
                                        confluence |-> calculate_master_confluence(
                                            detected.all_signals, <<>>, <<>>, <<>>,
                                            volume.value)])]
    /\ UNCHANGED <<market, confOut, indVars, serviceVars, botLog, gator, candles, dedup, alligatorLog, kijunLog, aoLog, priceData, retraceLog, evalLog>>

HullNext == HullDetect \/ HullAggregate

SpecHull == HullInit /\ [][HullNext]_vars

\* C14: a window whose previous close is <= Hull 21 and whose latest close is
\* > Hull 21, with no other detector event and a latest candle at 2.2x the
\* base volume: the Hull detector emits exactly one break event, of the
\* bullish system and strength 0.7, the latest volume reading is HOT with
\* strength 0.8, the score is 0.7 + 0.8 + 0.3 = 1.8 and the class VERY GOOD.
C14_BreakOnHotVolume ==
    LET n == Len(candles.rows)
    IN (/\ detected # NoValue
        /\ candles.rows[n - 1].close <= candles.rows[n - 1].hull_21
        /\ candles.rows[n].close > candles.rows[n].hull_21
        /\ detected.cross_retests = <<>>
        /\ candles.vol.base > 0
        /\ candles.vol.tail = <<candles.vol.base, candles.vol.base,
                                (22 * candles.vol.base) \div 10>>)
       => /\ Len(detected.hull_breaks) = 1
          /\ detected.hull_breaks[1].type = "hull_bullish_break"
          /\ detected.hull_breaks[1].system = WIND
          /\ detected.hull_breaks[1].strength = F0_7
          /\ detected.confluence # NoValue =>
                /\ ~detected.confluence.raised
                /\ LET r == detected.confluence.value
                   IN /\ r.volume_signals[Len(r.volume_signals)].level = "HOT"
                      /\ r.volume_signals[Len(r.volume_signals)].strength = F0_8
                      /\ r.confluence.score = F1_8
                      /\ r.confluence.classification = "VERY GOOD"
                      /\ r.confluence.primary_system = WIND

\* the close went from 99 to 101 over the flat line at 100 on a 2.2x candle
C14_Witness ==
    /\ candles.rows[FrameLen - 1].close = 99
    /\ candles.rows[FrameLen - 1].hull_21 = 100
    /\ candles.rows[FrameLen].close = 101
    /\ candles.vol.tail[3] * 10 = 22 * candles.vol.base
    /\ detected # NoValue
    /\ detected.confluence # NoValue
    /\ detected.all_signals = detected.hull_breaks
    /\ Len(detected.hull_breaks) = 1
    /\ detected.confluence.value.confluence.score = F1_8
    /\ detected.confluence.value.confluence.classification = "VERY GOOD"

\* rows of the lookback at which Hull 21 crosses Hull 34, and the side it crosses to
CrossRows ==
    { k \in 2..Len(candles.rows) :
        /\ k >= Len(candles.rows) - Lookback + 1
        /\ k <= Len(candles.rows) - CrossGuard
        /\ \/ candles.rows[k].hull_21 > candles.rows[k].hull_34
              /\ candles.rows[k - 1].hull_21 <= candles.rows[k - 1].hull_34
           \/ candles.rows[k].hull_21 < candles.rows[k].hull_34
              /\ candles.rows[k - 1].hull_21 >= candles.rows[k - 1].hull_34 }

CrossedUp(k) == candles.rows[k].hull_21 > candles.rows[k].hull_34

\* the range of row j holds the line and the close is on the side of the cross
Holds(j, line, up) ==
    /\ candles.rows[j].low <= line
    /\ line <= candles.rows[j].high
    /\ IF up THEN candles.rows[j].close >= line ELSE candles.rows[j].close <= line

QualifyingRows(k) ==
    { j \in (k + 1)..Min2(k + RetestSpan, Len(candles.rows)) :
        \/ Holds(j, candles.rows[j].hull_34, CrossedUp(k))
        \/ Holds(j, candles.rows[j].hull_21, CrossedUp(k)) }

\* C19: for a Hull 21 / Hull 34 cross in the lookback the detector reports at
\* most one retest, and the reported one is the first candle of the 15 after
\* the cross whose range holds Hull 34 (strength 0.8) or else Hull 21 (0.6)
\* with the close on the consistent side: a later qualifying candle is never
\* reported for the cross, and the retest reported lies in the last 12 hours.
C19_FirstRetestOnly ==
    detected # NoValue =>
        /\ Len(detected.cross_retests) <= Cardinality(CrossRows)
        /\ \A k \in CrossRows :
              (Cardinality(CrossRows) = 1 /\ detected.cross_retests # <<>>) =>
                 LET e == detected.cross_retests[1]
                     first == CHOOSE j \in QualifyingRows(k) :
                                  \A i \in QualifyingRows(k) : j <= i
                 IN /\ QualifyingRows(k) # {}
                    /\ e.timestamp = FrameTs(candles, first)
                    /\ e.strength = IF Holds(first, candles.rows[first].hull_34, CrossedUp(k))
                                    THEN F0_8 ELSE F0_6
                    /\ candles.ts - e.timestamp <= RecentHours * 3600


-----------------------------------------------------------------------------
(* SpecDedup: SignalDetectorService.signal_exists_recently asked about an    *)
(* evaluation, on a signals table filled by earlier evaluations.  A result   *)
(* carries the timestamp of the latest stored candle, which opened at or     *)
(* before the wall clock reading of the check.                               *)

MaxChecks == 1      \* duplicate checks made on one table

\* timestamps of Signals stored by earlier evaluations: candles that opened
\* five, four and three hours before the latest one
StoredTimestamps == { LatestTimestamp - h * CandleSeconds : h \in {5, 4, 3} }

StoredSignals ==
    { [MigratedRow EXCEPT !.symbol = symbol, !.timeframe = timeframe,
                          !.timestamp = ts, !.created_at = ts] :
          symbol \in Symbols, timeframe \in {"1h", "4h"}, ts \in StoredTimestamps }

\* the table in id order
SignalTables ==
    { <<>> } \cup { <<r>> : r \in StoredSignals } \cup
    { <<r1, [r2 EXCEPT !.id = 2]>> : r1 \in StoredSignals, r2 \in StoredSignals }

DedupInit ==
    /\ IdleEval
    /\ IdleRetrace
    /\ IdleCollect
    /\ IdleDivergence
    /\ IdleKijun
    /\ IdleTransitions
    /\ signals \in SignalTables
    /\ now \in { LatestTimestamp, LatestTimestamp + CandleSeconds }
    /\ dedup = <<>>
    /\ market = [s \in Symbols |-> EmptySnapshot]
    /\ watchlist = {}
    /\ bot = "none"
    /\ pc = "sleeping"
    /\ entries = <<>>
    /\ idx = 1
    /\ stats = FreshStats
    /\ scanlog = <<>>
    /\ IdleConf
    /\ IdleInd
    /\ IdleBot
    /\ IdleGator
    /\ IdleHull

\* self.signal_exists_recently(conn, result['symbol'], result['timeframe'], hours_window=4)
\* for a result whose timestamp is that of the latest candle
DedupCheck ==
    /\ Len(dedup) < MaxChecks
    /\ \E symbol \in Symbols, timeframe \in {"1h", "4h"} :
          dedup' = Append(dedup,
                          [symbol |-> symbol, timeframe |-> timeframe,
                           timestamp |-> LatestTimestamp,
                           result |-> signal_exists_recently(signals, symbol, timeframe,
                                                             HoursWindow, now)])
    /\ UNCHANGED <<market, confOut, indVars, serviceVars, botLog, gator, candles, detected, alligatorLog, kijunLog, aoLog, priceData, retraceLog, evalLog>>

DedupNext == DedupCheck

SpecDedup == DedupInit /\ [][DedupNext]_vars

\* a stored Signal of the same symbol and timeframe within hours_window hours
\* before or after the timestamp t
InWindowAround(table, symbol, timeframe, t) ==
    \E k \in 1..Len(table) :
        /\ table[k].symbol = symbol
        /\ table[k].timeframe = timeframe
        /\ table[k].timestamp >= t - HoursWindow * 3600
        /\ table[k].timestamp <= t + HoursWindow * 3600

\* C16: the duplicate check for an evaluation of (symbol, timeframe) with
\* evaluation timestamp T rejects exactly when a stored Signal of the same
\* symbol and timeframe has its timestamp in [T - 4h, T + 4h].
C16_WindowCentredOnEvaluation ==
    \A k \in 1..Len(dedup) :
        dedup[k].result <=>
            InWindowAround(signals, dedup[k].symbol, dedup[k].timeframe, dedup[k].timestamp)


-----------------------------------------------------------------------------
(* SpecTransitions: alligator_analyzer.detect_state_transitions on the states *)
(* analyze_symbol_alligator collects, one per candle, candles an hour apart.  *)

TransitionLookback == 10     \* alligator_analyzer.py:84
ConfirmPeriods == 3          \* alligator_analyzer.py:101, 119
MaxStates == 11              \* longest list of states

\* a Python list where None may stand instead
ListValue(q) == [none |-> FALSE, list |-> q]

\* timestamps of n hourly candles, the last one the latest stored candle
HourlyTimestamps(n) == [i \in 1..n |-> LatestTimestamp - (n - i) * CandleSeconds]

Transition(type, description, strength, significance, transition_time, last_time) ==
    [type |-> type, description |-> description, strength |-> strength,
     significance |-> significance, trigger_timestamp |-> transition_time,
     hours_ago |-> Q(last_time - transition_time, 3600)]

\* the inner loop  for j in range(1, check_periods + 1)  at position i (from 0)
StateConfirmed(recent_states, i, state) ==
    LET check_periods == Min2(ConfirmPeriods, Len(recent_states) - i - 1)
    IN \A j \in 1..check_periods :
          ~(i + j < Len(recent_states) /\ recent_states[i + j + 1] # state)

\* the body of  for i in range(1, len(recent_states)),  appending to transitions
RECURSIVE TransitionsFrom(_, _, _, _)
TransitionsFrom(recent_states, recent_timestamps, i, transitions) ==
    IF i >= Len(recent_states) THEN transitions
    ELSE LET prev_state == recent_states[i]
             curr_state == recent_states[i + 1]
             transition_time == recent_timestamps[i + 1]
             last_time == recent_timestamps[Len(recent_timestamps)]
             found ==
                 IF prev_state = "awake" /\ curr_state = "sleeping"
                    /\ StateConfirmed(recent_states, i, "sleeping")
                 THEN <<Transition("awake_to_sleeping", "Market entered consolidation phase",
                                   F0_6, "medium", transition_time, last_time)>>
                 ELSE IF prev_state = "sleeping" /\ curr_state = "awake"
                         /\ StateConfirmed(recent_states, i, "awake")
                 THEN <<Transition("sleeping_to_awake", "Market broke out of consolidation",
                                   F0_7, "high", transition_time, last_time)>>
                 ELSE <<>>
         IN TransitionsFrom(recent_states, recent_timestamps, i + 1, transitions \o found)

\* variant: the earliest confirmed transition is the one reported
detect_state_transitions_first(states, timestamps, lookback) ==
    IF Len(states) < lookback \/ Len(timestamps) < lookback THEN NoValue
    ELSE LET recent_states == SubSeq(states, Len(states) - lookback + 1, Len(states))
             recent_timestamps == SubSeq(timestamps, Len(timestamps) - lookback + 1, Len(timestamps))
             transitions == TransitionsFrom(recent_states, recent_timestamps, 1, <<>>)
         IN IF transitions # <<>> THEN ListValue(<<transitions[1]>>) ELSE ListValue(transitions)

\* alligator_analyzer.detect_state_transitions: None on too few states
detect_state_transitions(states, timestamps, lookback) ==
    IF Len(states) < lookback \/ Len(timestamps) < lookback THEN NoValue
    ELSE LET recent_states == SubSeq(states, Len(states) - lookback + 1, Len(states))
             recent_timestamps == SubSeq(timestamps, Len(timestamps) - lookback + 1, Len(timestamps))
             transitions == TransitionsFrom(recent_states, recent_timestamps, 1, <<>>)
         IN IF transitions # <<>> THEN ListValue(<<transitions[Len(transitions)]>>)
            ELSE ListValue(transitions)

\* lists of states: candles before the lines are defined are 'unknown', later
\* ones 'sleeping' or 'awake'
StateLists ==
    UNION { { [i \in 1..n |-> IF i <= k THEN "unknown" ELSE q[i]] :
                q \in [1..n -> {"sleeping", "awake"}] } :
            n \in (TransitionLookback - 1)..MaxStates, k \in 0..1 }

TransitionsInit ==
    /\ IdleEval
    /\ IdleRetrace
    /\ IdleCollect
    /\ IdleDivergence
    /\ IdleKijun
    /\ alligatorLog \in [states : StateLists, transitions : {NoValue}, done : {FALSE}]
    /\ market = [s \in Symbols |-> EmptySnapshot]
    /\ IdleConf
    /\ IdleInd
    /\ IdleService
    /\ IdleBot
    /\ IdleGator
    /\ IdleHull
    /\ IdleDedup

\* transitions = detect_state_transitions(states, timestamps)
TransitionsDetect ==
    /\ ~alligatorLog.done
    /\ alligatorLog' =
          [alligatorLog EXCEPT
              !.transitions = detect_state_transitions(alligatorLog.states,
                                                       HourlyTimestamps(Len(alligatorLog.states)),
                                                       TransitionLookback),
              !.done = TRUE]
    /\ UNCHANGED <<market, confOut, indVars, serviceVars, botLog, gator, candles, detected, dedup, kijunLog, aoLog, priceData, retraceLog, evalLog>>

TransitionsNext == TransitionsDetect

SpecTransitions == TransitionsInit /\ [][TransitionsNext]_vars

\* the trailing lookback of the states
TrailingStates == SubSeq(alligatorLog.states, Len(alligatorLog.states) - TransitionLookback + 1, Len(alligatorLog.states))

\* position p of the trailing states (from 1) starts a confirmed transition:
\* the state flips between sleeping and awake there and the new state holds
\* on each of the next min(3, remaining) candles
ConfirmedAt(p) ==
    LET r == TrailingStates
    IN /\ p >= 2
       /\ p <= Len(r)
       /\ {r[p - 1], r[p]} = {"sleeping", "awake"}
       /\ \A j \in 1..Min2(3, Len(r) - p) : r[p + j] = r[p]

ConfirmedPositions == { p \in 2..TransitionLookback : ConfirmedAt(p) }

\* C21: over the trailing lookback of Alligator states the transition detector
\* reports at most one transition, the most recent flip between sleeping and
\* awake whose new state holds on each of the next min(3, remaining) candles;
\* a flip whose new state does not persist over that span is never reported.
C21_LatestConfirmedTransition ==
    (alligatorLog.done /\ Len(alligatorLog.states) >= TransitionLookback) =>
        LET ts == HourlyTimestamps(TransitionLookback)
            out == alligatorLog.transitions.list
        IN /\ alligatorLog.transitions # NoValue
           /\ Len(out) <= 1
           /\ (out = <<>>) <=> (ConfirmedPositions = {})
           /\ out # <<>> =>
                LET p == CHOOSE q \in ConfirmedPositions : \A w \in ConfirmedPositions : w <= q
                IN /\ out[1].trigger_timestamp = ts[p]
                   /\ out[1].type = IF TrailingStates[p] = "sleeping"
                                    THEN "awake_to_sleeping" ELSE "sleeping_to_awake"

\* a confirmed flip to sleeping, two flips that do not persist, and a flip to
\* awake that holds to the end of the window: the last one is reported
C21_Witness ==
    /\ alligatorLog.done
    /\ alligatorLog.states = <<"awake", "sleeping", "sleeping", "sleeping", "sleeping",
                               "awake", "awake", "sleeping", "awake", "awake">>
    /\ ConfirmedPositions = {2, 9}
    /\ Len(alligatorLog.transitions.list) = 1
    /\ alligatorLog.transitions.list[1].type = "sleeping_to_awake"
    /\ alligatorLog.transitions.list[1].hours_ago = Q(3600, 3600)


-----------------------------------------------------------------------------
(* SpecKijun: ichimoku_analyzer.detect_kijun_touches on hourly candles and    *)
(* their Kijun line.  Prices are whole numbers; a Kijun value is a fraction   *)
(* or NaN.                                                                    *)

KijunLookback == 6       \* ichimoku_analyzer.py:175
MaxKijunRows == 7        \* longest candle window
MaxTouching == 2         \* most candles of a window that are not clear of the line

KijunTouch(touch_type, touch_time, current_price, kijun_value, current_time) ==
    [type |-> "kijun_touch",
     description |-> IF touch_type = "support" THEN "Price touched Kijun-sen as support"
                     ELSE IF touch_type = "resistance" THEN "Price touched Kijun-sen as resistance"
                     ELSE "Price touched Kijun-sen as exact",
     touch_type |-> touch_type, timestamp |-> touch_time, price |-> current_price,
     kijun_value |-> kijun_value, hours_ago |-> Q(current_time - touch_time, 3600),
     strength |-> F0_7]

\* if current_price > kijun_value ... elif current_price < kijun_value ... else
TouchType(current_price, kijun_value) ==
    IF current_price * kijun_value.den > kijun_value.num THEN "support"
    ELSE IF current_price * kijun_value.den < kijun_value.num THEN "resistance"
    ELSE "exact"

\* the body of  for i in range(len(df) - lookback, len(df)),  i from 1 here
RECURSIVE KijunTouchesFrom(_, _, _, _)
KijunTouchesFrom(df, kijun_sen, i, kijun_touches) ==
    IF i > Len(df) THEN kijun_touches
    ELSE IF kijun_sen[i].nan THEN KijunTouchesFrom(df, kijun_sen, i + 1, kijun_touches)
    ELSE LET current_price == df[i].close
             current_high == df[i].high
             current_low == df[i].low
             kijun_value == kijun_sen[i]
         IN IF /\ current_low * kijun_value.den <= kijun_value.num
               /\ kijun_value.num <= current_high * kijun_value.den
            THEN KijunTouchesFrom(df, kijun_sen, i + 1,
                     Append(kijun_touches,
                            KijunTouch(TouchType(current_price, kijun_value), df[i].timestamp,
                                       current_price, kijun_value, df[Len(df)].timestamp)))
            ELSE KijunTouchesFrom(df, kijun_sen, i + 1, kijun_touches)

\* ichimoku_analyzer.detect_kijun_touches
detect_kijun_touches(df, kijun_sen, lookback) ==
    IF Len(df) < lookback THEN <<>>
    ELSE KijunTouchesFrom(df, kijun_sen, Len(df) - lookback + 1, <<>>)

\* a candle against a Kijun line at 100: clear of it, closing above it, below
\* it or on it with the line inside its range, or a candle without a line
KijunCandleKinds == {"clear", "above", "below", "on", "undefined"}

KijunCandle(kind, ts) ==
    [timestamp |-> ts,
     low |-> IF kind = "clear" THEN 101 ELSE 99,
     high |-> IF kind = "clear" THEN 104 ELSE 102,
     close |-> CASE kind = "above" -> 101
                 [] kind = "below" -> 99
                 [] kind = "on" -> 100
                 [] OTHER -> 102]

KijunKindLists ==
    UNION { { q \in [1..n -> KijunCandleKinds] :
                Cardinality({ i \in 1..n : q[i] # "clear" }) <= MaxTouching } :
            n \in (KijunLookback - 1)..MaxKijunRows }

KijunInit ==
    /\ IdleEval
    /\ IdleRetrace
    /\ IdleCollect
    /\ IdleDivergence
    /\ kijunLog \in
          { [df |-> [i \in 1..Len(q) |-> KijunCandle(q[i], HourlyTimestamps(Len(q))[i])],
             kijun_sen |-> [i \in 1..Len(q) |-> IF q[i] = "undefined" THEN NaN ELSE Q(100, 1)],
             touches |-> <<>>, done |-> FALSE] : q \in KijunKindLists }
    /\ market = [s \in Symbols |-> EmptySnapshot]
    /\ IdleConf
    /\ IdleInd
    /\ IdleService
    /\ IdleBot
    /\ IdleGator
    /\ IdleHull
    /\ IdleDedup
    /\ IdleTransitions

\* kijun_touches = detect_kijun_touches(df, df['kijun_sen'])
KijunDetect ==
    /\ ~kijunLog.done
    /\ kijunLog' = [kijunLog EXCEPT
                       !.touches = detect_kijun_touches(kijunLog.df, kijunLog.kijun_sen,
                                                        KijunLookback),
                       !.done = TRUE]
    /\ UNCHANGED <<market, confOut, indVars, serviceVars, botLog, gator, candles, detected, dedup, alligatorLog, aoLog, priceData, retraceLog, evalLog>>

KijunNext == KijunDetect

SpecKijun == KijunInit /\ [][KijunNext]_vars

\* the candles among the last six whose [low, high] holds the Kijun value
KijunRangeRows ==
    { i \in 1..Len(kijunLog.df) :
        /\ i > Len(kijunLog.df) - KijunLookback
        /\ ~kijunLog.kijun_sen[i].nan
        /\ kijunLog.df[i].low * kijunLog.kijun_sen[i].den <= kijunLog.kijun_sen[i].num
        /\ kijunLog.kijun_sen[i].num <= kijunLog.df[i].high * kijunLog.kijun_sen[i].den }

\* C22: for each of the last 6 candles whose [low, high] range holds the Kijun
\* value the detector reports one touch, and every reported touch is classified
\* support or resistance, nothing else.
C22_TouchIsSupportOrResistance ==
    (kijunLog.done /\ Len(kijunLog.df) >= KijunLookback) =>
        /\ Len(kijunLog.touches) = Cardinality(KijunRangeRows)
        /\ \A i \in KijunRangeRows :
              \E k \in 1..Len(kijunLog.touches) :
                  kijunLog.touches[k].timestamp = kijunLog.df[i].timestamp
        /\ \A k \in 1..Len(kijunLog.touches) :
              kijunLog.touches[k].touch_type \in {"support", "resistance"}

\* the first conjuncts alone: one touch per candle of the last six that holds
\* the line
OneTouchPerRangeRow ==
    (kijunLog.done /\ Len(kijunLog.df) >= KijunLookback) =>
        /\ Len(kijunLog.touches) = Cardinality(KijunRangeRows)
        /\ \A i \in KijunRangeRows :
              \E k \in 1..Len(kijunLog.touches) :
                  kijunLog.touches[k].timestamp = kijunLog.df[i].timestamp


-----------------------------------------------------------------------------
(* SpecDivergence: enhanced_indicators.detect_regular_divergence as           *)
(* analyze_ao_divergences calls it: on the pivot lows of price and oscillator *)
(* for 'bullish', on the pivot highs for 'bearish'.  A series is given by its *)
(* values at the pivot bars, the only ones the function reads.                *)

PivotWindow == 5       \* enhanced_indicators.py:106
RecentPivots == 3      \* enhanced_indicators.py:93
MaxPivots == 3         \* most pivots of one series
PivotGap == 10         \* bars between the places a price pivot may stand
OscLag == 2            \* bars from a price pivot to the oscillator pivot beside it

Divergence(type, description, price_pivot1, price_pivot2, osc_pivot1, osc_pivot2) ==
    [type |-> type, price_pivot1 |-> price_pivot1, price_pivot2 |-> price_pivot2,
     osc_pivot1 |-> osc_pivot1, osc_pivot2 |-> osc_pivot2, strength |-> F0_8,
     description |-> description]

\* recent[-3:] if len(recent) >= 3 else recent
LastPivots(pivots) ==
    IF Len(pivots) >= RecentPivots THEN SubSeq(pivots, Len(pivots) - RecentPivots + 1, Len(pivots))
    ELSE pivots

\* for osc_pivot in recent_osc_pivots: if abs(osc_pivot - price_pivot) <= 5:
\* the last oscillator pivot within the window, -1 for None
RECURSIVE MatchPivot(_, _, _)
MatchPivot(recent_osc_pivots, price_pivot, found) ==
    IF recent_osc_pivots = <<>> THEN found
    ELSE LET osc_pivot == Head(recent_osc_pivots)
             near == IF osc_pivot >= price_pivot THEN osc_pivot - price_pivot <= PivotWindow
                     ELSE price_pivot - osc_pivot <= PivotWindow
         IN MatchPivot(Tail(recent_osc_pivots), price_pivot, IF near THEN osc_pivot ELSE found)

\* the body of  for i in range(1, len(recent_price_pivots))
RECURSIVE DivergencesFrom(_, _, _, _, _, _, _)
DivergencesFrom(price_data, oscillator_data, recent_price_pivots, recent_osc_pivots, divergence_type, i, divergences) ==
    IF i >= Len(recent_price_pivots) THEN divergences
    ELSE LET price_pivot1 == recent_price_pivots[i]
             price_pivot2 == recent_price_pivots[i + 1]
             osc_pivot1 == MatchPivot(recent_osc_pivots, price_pivot1, -1)
             osc_pivot2 == MatchPivot(recent_osc_pivots, price_pivot2, -1)
             found ==
                 IF osc_pivot1 = -1 \/ osc_pivot2 = -1 THEN <<>>
                 ELSE IF divergence_type = "bullish"
                 THEN (IF /\ price_data[price_pivot2] < price_data[price_pivot1]
                          /\ oscillator_data[osc_pivot2] > oscillator_data[osc_pivot1]
                       THEN <<Divergence("regular_bullish", "Regular bullish divergence detected",
                                         price_pivot1, price_pivot2, osc_pivot1, osc_pivot2)>>
                       ELSE <<>>)
                 ELSE IF divergence_type = "bearish"
                 THEN (IF /\ price_data[price_pivot2] > price_data[price_pivot1]
                          /\ oscillator_data[osc_pivot2] < oscillator_data[osc_pivot1]
                       THEN <<Divergence("regular_bearish", "Regular bearish divergence detected",
                                         price_pivot1, price_pivot2, osc_pivot1, osc_pivot2)>>
                       ELSE <<>>)
                 ELSE <<>>
         IN DivergencesFrom(price_data, oscillator_data, recent_price_pivots, recent_osc_pivots,
                            divergence_type, i + 1, divergences \o found)

\* enhanced_indicators.detect_regular_divergence
detect_regular_divergence(price_data, oscillator_data, price_pivots, osc_pivots, divergence_type) ==
    IF Len(price_pivots) < 2 \/ Len(osc_pivots) < 2 THEN <<>>
    ELSE DivergencesFrom(price_data, oscillator_data, LastPivots(price_pivots),
                         LastPivots(osc_pivots), divergence_type, 1, <<>>)

\* the bars of a set in ascending order, as argrelextrema lists pivots
RECURSIVE Ascending(_)
Ascending(bars) ==
    IF bars = {} THEN <<>>
    ELSE LET least == CHOOSE b \in bars : \A c \in bars : b <= c
         IN <<least>> \o Ascending(bars \ {least})

PivotValues == 1..3
PriceBars == { PivotGap * k : k \in 1..MaxPivots }
OscBars == { PivotGap * k + OscLag : k \in 1..MaxPivots }

\* analyze_ao_divergences: the pivots found in price and in the oscillator
DivergenceInit ==
    /\ IdleEval
    /\ IdleRetrace
    /\ IdleCollect
    /\ aoLog \in
          { [price_pivots |-> Ascending(pb), osc_pivots |-> Ascending(ob),
             price_data |-> pv, oscillator_data |-> ov, calls |-> <<>>] :
               pb \in SUBSET PriceBars, ob \in SUBSET OscBars,
               pv \in [PriceBars -> PivotValues], ov \in [OscBars -> PivotValues] }
    /\ \A b \in PriceBars : b \notin { aoLog.price_pivots[k] : k \in 1..Len(aoLog.price_pivots) }
                               => aoLog.price_data[b] = 1
    /\ \A b \in OscBars : b \notin { aoLog.osc_pivots[k] : k \in 1..Len(aoLog.osc_pivots) }
                               => aoLog.oscillator_data[b] = 1
    /\ market = [s \in Symbols |-> EmptySnapshot]
    /\ IdleConf
    /\ IdleInd
    /\ IdleService
    /\ IdleBot
    /\ IdleGator
    /\ IdleHull
    /\ IdleDedup
    /\ IdleTransitions
    /\ IdleKijun

\* if len(price_lows_low) >= 2 and len(ao_lows) >= 2: detect_regular_divergence(...),
\* and the same on the highs
DivergenceDetect ==
    /\ Len(aoLog.calls) < 1
    /\ Len(aoLog.price_pivots) >= 2
    /\ Len(aoLog.osc_pivots) >= 2
    /\ \E divergence_type \in {"bullish", "bearish"} :
          aoLog' = [aoLog EXCEPT !.calls =
                       Append(@, [divergence_type |-> divergence_type,
                                  divergences |-> detect_regular_divergence(
                                       aoLog.price_data, aoLog.oscillator_data,
                                       aoLog.price_pivots, aoLog.osc_pivots, divergence_type)])]
    /\ UNCHANGED <<market, confOut, indVars, serviceVars, botLog, gator, candles, detected, dedup, alligatorLog, kijunLog, priceData, retraceLog, evalLog>>

DivergenceNext == DivergenceDetect

SpecDivergence == DivergenceInit /\ [][DivergenceNext]_vars

\* the recent oscillator pivots within 5 bars of a price pivot
OscNear(price_pivot) ==
    { LastPivots(aoLog.osc_pivots)[k] : k \in 1..Len(LastPivots(aoLog.osc_pivots)) } \cap
    ((price_pivot - 5)..(price_pivot + 5))

\* the pairs of consecutive recent price pivots, by the place of the later one,
\* whose two pivots each have an oscillator pivot within 5 bars
MatchedPairs ==
    LET recent == LastPivots(aoLog.price_pivots)
    IN { i \in 2..Len(recent) : OscNear(recent[i - 1]) # {} /\ OscNear(recent[i]) # {} }

\* the pair diverges in the direction: the later price pivot is lower (higher
\* for bearish) and its oscillator pivot higher (lower)
PairDiverges(i, divergence_type) ==
    LET recent == LastPivots(aoLog.price_pivots)
        p1 == recent[i - 1]
        p2 == recent[i]
    IN \E o1 \in OscNear(p1), o2 \in OscNear(p2) :
          IF divergence_type = "bullish"
          THEN /\ aoLog.price_data[p2] < aoLog.price_data[p1]
               /\ aoLog.oscillator_data[o2] > aoLog.oscillator_data[o1]
          ELSE /\ aoLog.price_data[p2] > aoLog.price_data[p1]
               /\ aoLog.oscillator_data[o2] < aoLog.oscillator_data[o1]

LatestPairDiverges(divergence_type) ==
    /\ MatchedPairs # {}
    /\ PairDiverges(CHOOSE i \in MatchedPairs : \A j \in MatchedPairs : j <= i, divergence_type)

\* C23: in one evaluation the divergence detector considers only the most
\* recent matched pair of consecutive pivots per direction: it reports at most
\* one bullish and at most one bearish divergence, each of strength 0.8,
\* exactly when that pair diverges.
C23_OnlyLatestPivotPair ==
    \A c \in 1..Len(aoLog.calls) :
        LET call == aoLog.calls[c]
        IN /\ Len(call.divergences) <= 1
           /\ \A k \in 1..Len(call.divergences) : call.divergences[k].strength = F0_8
           /\ (call.divergences # <<>>) <=> LatestPairDiverges(call.divergence_type)

\* no call reports two divergences
AtMostOneDivergence == \A c \in 1..Len(aoLog.calls) : Len(aoLog.calls[c].divergences) <= 1

\* every reported divergence has strength 0.8 and the type of its direction
DivergencesWellFormed ==
    \A c \in 1..Len(aoLog.calls) :
        \A k \in 1..Len(aoLog.calls[c].divergences) :
            /\ aoLog.calls[c].divergences[k].strength = F0_8
            /\ aoLog.calls[c].divergences[k].type =
                  IF aoLog.calls[c].divergence_type = "bullish"
                  THEN "regular_bullish" ELSE "regular_bearish"


-----------------------------------------------------------------------------
(* SpecCollect: the two collectors storing one fetched batch of 1h candles    *)
(* of a symbol, data_collector.fetch_and_store_ohlcv and                      *)
(* multi_timeframe_collector.store_ohlcv_data.  An exchange timestamp is in   *)
(* milliseconds: [k, r] stands for 1000 * k + r.                              *)

MaxBatch == 3                    \* most candles of one fetched batch
EpochSeconds == 1700000000       \* the hour of the first candle of a batch, seconds

Millis(k, r) == [k |-> k, r |-> r]

\* candle[:6] = timestamp, open, high, low, close, volume
OhlcvCandle(timestamp, open_price, high, low, close, volume) ==
    [timestamp |-> timestamp, open |-> open_price, high |-> high, low |-> low,
     close |-> close, volume |-> volume]

\* utils.validate_ohlcv_data on a list of six numbers: the ValueError raised,
\* or True.  The upper limits (timestamp 9999999999999, price 1e10) are beyond
\* every value of the batches.
validate_ohlcv_data(candle) ==
    IF candle.timestamp.k < 0 \/ (candle.timestamp.k = 0 /\ candle.timestamp.r <= 0)
    THEN Raised("ValueError")
    ELSE IF candle.timestamp.k < 1000000 THEN Raised("ValueError")
    ELSE IF \E price \in {candle.open, candle.high, candle.low, candle.close} : price <= 0
    THEN Raised("ValueError")
    ELSE IF candle.high < candle.low THEN Raised("ValueError")
    ELSE IF candle.high < candle.open \/ candle.high < candle.close THEN Raised("ValueError")
    ELSE IF candle.low > candle.open \/ candle.low > candle.close THEN Raised("ValueError")
    ELSE IF candle.volume < 0 THEN Raised("ValueError")
    ELSE Returned(TRUE)

\* utils.normalize_timestamp: above 10000000000 the value is milliseconds
normalize_timestamp(timestamp) ==
    IF timestamp.k > 10000000 \/ (timestamp.k = 10000000 /\ timestamp.r > 0)
    THEN timestamp.k
    ELSE 1000 * timestamp.k + timestamp.r

PriceRow(timestamp, candle) ==
    [timestamp |-> timestamp, open |-> candle.open, high |-> candle.high, low |-> candle.low,
     close |-> candle.close, volume |-> candle.volume]

\* INSERT OR REPLACE INTO price_data: one row per (symbol, timeframe, timestamp)
InsertOrReplace(rows, row) == { r \in rows : r.timestamp # row.timestamp } \cup {row}

\* for candle in ohlcv_data  of fetch_and_store_ohlcv: a ValueError of the
\* validation skips the candle
RECURSIVE StoreValidated(_, _)
StoreValidated(ohlcv_data, acc) ==
    IF ohlcv_data = <<>> THEN acc
    ELSE LET candle == Head(ohlcv_data)
         IN IF validate_ohlcv_data(candle).raised
            THEN StoreValidated(Tail(ohlcv_data), acc)
            ELSE StoreValidated(Tail(ohlcv_data),
                   [rows |-> InsertOrReplace(acc.rows,
                                             PriceRow(normalize_timestamp(candle.timestamp), candle)),
                    stored_count |-> acc.stored_count + 1])

\* for candle in ohlcv_data  of store_ohlcv_data: timestamp = candle[0] // 1000
RECURSIVE StoreAll(_, _)
StoreAll(ohlcv_data, acc) ==
    IF ohlcv_data = <<>> THEN acc
    ELSE LET candle == Head(ohlcv_data)
         IN StoreAll(Tail(ohlcv_data),
                     [rows |-> InsertOrReplace(acc.rows, PriceRow(candle.timestamp.k, candle)),
                      stored_count |-> acc.stored_count + 1])

\* what an exchange may answer for one candle: a sound candle, a flat one
\* without trades, and candles with high below low, with a close above the
\* high, with a zero open, with a negative volume
CandleShapes == {"sound", "flat", "high_below_low", "close_above_high", "zero_open", "negative_volume"}

ShapedCandle(shape, k) ==
    CASE shape = "sound" -> OhlcvCandle(Millis(k, 0), 100, 103, 99, 102, 50)
      [] shape = "flat" -> OhlcvCandle(Millis(k, 0), 100, 100, 100, 100, 0)
      [] shape = "high_below_low" -> OhlcvCandle(Millis(k, 0), 100, 98, 101, 100, 50)
      [] shape = "close_above_high" -> OhlcvCandle(Millis(k, 0), 100, 103, 99, 104, 50)
      [] shape = "zero_open" -> OhlcvCandle(Millis(k, 0), 0, 103, 0, 102, 50)
      [] OTHER -> OhlcvCandle(Millis(k, 0), 100, 103, 99, 102, -1)

Batches ==
    UNION { { [j \in 1..n |-> ShapedCandle(q[j], EpochSeconds + (j - 1) * CandleSeconds)] :
                q \in [1..n -> CandleShapes] } : n \in 0..MaxBatch }

CollectInit ==
    /\ IdleEval
    /\ IdleRetrace
    /\ priceData \in [ohlcv_data : Batches, rows : {{}}, stored_count : {0}, path : {"none"}]
    /\ market = [s \in Symbols |-> EmptySnapshot]
    /\ IdleConf
    /\ IdleInd
    /\ IdleService
    /\ IdleBot
    /\ IdleGator
    /\ IdleHull
    /\ IdleDedup
    /\ IdleTransitions
    /\ IdleKijun
    /\ IdleDivergence

\* data_collector.fetch_and_store_ohlcv with the batch as the exchange's answer
FetchAndStore ==
    /\ priceData.path = "none"
    /\ LET done == IF priceData.ohlcv_data = <<>> THEN [rows |-> priceData.rows, stored_count |-> 0]
                   ELSE StoreValidated(priceData.ohlcv_data,
                                       [rows |-> priceData.rows, stored_count |-> 0])
       IN priceData' = [priceData EXCEPT !.rows = done.rows, !.stored_count = done.stored_count,
                                         !.path = "data_collector"]
    /\ UNCHANGED <<market, confOut, indVars, serviceVars, botLog, gator, candles, detected, dedup, alligatorLog, kijunLog, aoLog, retraceLog, evalLog>>

\* multi_timeframe_collector.store_ohlcv_data on the batch
StoreOhlcv ==
    /\ priceData.path = "none"
    /\ LET done == IF priceData.ohlcv_data = <<>> THEN [rows |-> priceData.rows, stored_count |-> 0]
                   ELSE StoreAll(priceData.ohlcv_data, [rows |-> priceData.rows, stored_count |-> 0])
       IN priceData' = [priceData EXCEPT !.rows = done.rows, !.stored_count = done.stored_count,
                                         !.path = "multi_timeframe_collector"]
    /\ UNCHANGED <<market, confOut, indVars, serviceVars, botLog, gator, candles, detected, dedup, alligatorLog, kijunLog, aoLog, retraceLog, evalLog>>

CollectNext == FetchAndStore \/ StoreOhlcv

SpecCollect == CollectInit /\ [][CollectNext]_vars

\* low <= open, close <= high; prices strictly positive; volume not negative
OhlcSound(c) ==
    /\ c.low <= c.open /\ c.open <= c.high
    /\ c.low <= c.close /\ c.close <= c.high
    /\ c.open > 0 /\ c.high > 0 /\ c.low > 0 /\ c.close > 0
    /\ c.volume >= 0

\* C24: a candle that violates the OHLC invariants is never written to the
\* candle store, on either collection path, and its rejection does not keep
\* the sound candles of the same batch from being stored.
C24_InvalidCandleExcluded ==
    priceData.path # "none" =>
        /\ \A r \in priceData.rows : OhlcSound(r)
        /\ \A j \in 1..Len(priceData.ohlcv_data) :
              OhlcSound(priceData.ohlcv_data[j]) =>
                  \E r \in priceData.rows :
                      /\ r.timestamp = priceData.ohlcv_data[j].timestamp.k
                      /\ r.close = priceData.ohlcv_data[j].close

\* the same for the path of data_collector alone
ValidatingPathExcludes ==
    priceData.path = "data_collector" =>
        /\ \A r \in priceData.rows : OhlcSound(r)
        /\ \A j \in 1..Len(priceData.ohlcv_data) :
              OhlcSound(priceData.ohlcv_data[j]) =>
                  \E r \in priceData.rows :
                      /\ r.timestamp = priceData.ohlcv_data[j].timestamp.k
                      /\ r.close = priceData.ohlcv_data[j].close

-----------------------------------------------------------------------------
(* SpecPersist: the body of the for loop of scan_watchlists from the result  *)
(* of the aggregator on, for a result that names the timeframe save_signal   *)
(* reads, on a signals table that earlier cycles have written to.            *)

MaxPasses == 2      \* passes of the loop body made on one table

\* the result dict the call of the loop asks for: that of the aggregator for
\* the symbol, carrying the entry's timeframe
WithTimeframe(result, timeframe) ==
    IF result = NoValue THEN NoValue
    ELSE [f \in DOMAIN result \cup {"timeframe"} |->
            IF f = "timeframe" THEN timeframe ELSE result[f]]

\* rows of earlier cycles: alerted or not, inside or outside the dedup window
PriorRows ==
    { [MigratedRow EXCEPT !.notified = flag, !.timestamp = LatestTimestamp - h * CandleSeconds,
                          !.created_at = LatestTimestamp - h * CandleSeconds] :
          flag \in {0, 1}, h \in {5, 1} }

\* the snapshots of the service and one more: no event of any analyzer on a
\* latest candle of four times the baseline volume (CLIMAX, 1.0 + 0.3)
PersistSnapshots ==
    ServiceSnapshots(LatestTimestamp) \cup
    { Snapshot(MinRows, LatestTimestamp,
               [base |-> BaseVolume, tail |-> <<BaseVolume, BaseVolume, 4 * BaseVolume>>],
               AnalyzerOk(<<>>), AnalyzerOk(<<>>), AnalyzerOk(<<>>), AnalyzerOk(<<>>)) }

PersistInit ==
    /\ market \in { [s \in Symbols |-> snap] : snap \in PersistSnapshots }
    /\ signals \in { <<>> } \cup { <<r>> : r \in PriorRows }
    /\ now = LatestTimestamp
    /\ bot \in {"none", "disabled", "enabled"}
    /\ watchlist = WatchPool
    /\ pc = "scanning"
    /\ entries = <<>>
    /\ idx = 1
    /\ stats = FreshStats
    /\ scanlog = <<>>
    /\ IdleConf
    /\ IdleInd
    /\ IdleUnits

\* the filters, save_signal, the alert and mark_signal_notified for one entry
LoopBody ==
    /\ Len(scanlog) < MaxPasses
    /\ \E entry \in watchlist :
          LET analysed == analyze_master_confluence(market, entry.symbol)
              outcomes == IF analysed.raised
                          THEN { Outcome(signals, 0, 0, 0, <<>>, analysed.exc) }
                          ELSE FilterOutcomes(entry, WithTimeframe(analysed.value, entry.timeframe),
                                              signals, now, bot)
          IN \E r \in outcomes :
                /\ signals' = r.table
                /\ scanlog' = Append(scanlog,
                                     [entry |-> entry, exc |-> r.exc, saved |-> r.id,
                                      added |-> Len(r.table) - Len(signals),
                                      alerted |-> r.alerts])
    /\ UNCHANGED <<unitVars, market, confOut, indVars, watchlist, now, bot, pc, entries, idx, stats>>

PersistNext == LoopBody

SpecPersist == PersistInit /\ [][PersistNext]_vars

\* the row save_signal inserts for the entry of the pass just made
CreatedRow(entry) ==
    LET result == WithTimeframe(analyze_master_confluence(market, entry.symbol).value,
                                entry.timeframe)
        saved == save_signal(signals, result, now, FALSE)
    IN saved.table[Len(saved.table)]

Eventless(result) ==
    /\ result.hull_signals = <<>>
    /\ result.ao_signals = <<>>
    /\ result.alligator_signals = <<>>
    /\ result.ichimoku_signals = <<>>

\* the result the pass k of the loop body was made on
PassResult(k) == analyze_master_confluence(market, scanlog[k].entry.symbol)

LatestReading(result) == result.volume_signals[Len(result.volume_signals)]

-----------------------------------------------------------------------------
(* SpecRetrace: alligator_analyzer.analyze_retracement_history on the last   *)
(* rows of a frame, under the trend direction analyze_symbol_alligator reads *)
(* off the latest line values, and the tagging of its events by              *)
(* master_confluence.get_alligator_signals.  Prices and line values are      *)
(* whole numbers; the rows are past the warm-up, so no line value is NaN.    *)

RetracementLookback == 20     \* alligator_analyzer.py:176
RecentEventHours == 10        \* alligator_analyzer.py:241
MaxRetraceTail == 3           \* closing rows of the frame that vary

\* abs(price - blue_line) / blue_line < 0.002, for a blue line above zero
AtBlueLine(price, blue_line) ==
    LET gap == IF price >= blue_line THEN price - blue_line ELSE blue_line - price
    IN 1000 * gap < 2 * blue_line

determine_price_zone(price, jaw, teeth, lips, trend_direction) ==
    IF trend_direction = "bullish"
    THEN IF price > lips THEN "above_red"
         ELSE IF AtBlueLine(price, jaw) THEN "at_blue_line"
         ELSE IF price < jaw THEN "below_blue"
         ELSE IF lips >= price /\ price >= jaw THEN "between_red_blue"
         ELSE "unknown"
    ELSE IF trend_direction = "bearish"
    THEN IF price < lips THEN "above_red"
         ELSE IF AtBlueLine(price, jaw) THEN "at_blue_line"
         ELSE IF price > jaw THEN "below_blue"
         ELSE IF lips <= price /\ price <= jaw THEN "between_red_blue"
         ELSE "unknown"
    ELSE "unknown"

RetraceEvent(type, description, timestamp, price, strength) ==
    [type |-> type, description |-> description, timestamp |-> timestamp,
     price |-> price, strength |-> strength]

\* df['timestamp'].iloc[i - 1] of a frame of hourly candles
RetraceTs(df, i) == df.ts - (Len(df.close) - i) * CandleSeconds

\* the events of one row: a change of zone, then a contact with the blue line
RowEvents(df, jaw, teeth, lips, trend_direction, i) ==
    LET current_price == df.close[i]
        current_time == RetraceTs(df, i)
        prev_zone == IF i > 1
                     THEN determine_price_zone(df.close[i - 1], jaw[i - 1], teeth[i - 1],
                                               lips[i - 1], trend_direction)
                     ELSE None
        current_zone == determine_price_zone(current_price, jaw[i], teeth[i], lips[i],
                                             trend_direction)
        moved == IF prev_zone # None /\ current_zone # prev_zone
                 THEN IF current_zone = "between_red_blue"
                      THEN <<RetraceEvent("zone_entry", "Price entered red-blue zone",
                                          current_time, current_price, F0_7)>>
                      ELSE IF prev_zone = "between_red_blue"
                      THEN <<RetraceEvent("zone_exit",
                                          IF current_zone = "above_red"
                                          THEN "Price broke above red line (bullish exit)"
                                          ELSE IF current_zone = "below_blue"
                                          THEN "Price broke below blue line (bearish exit)"
                                          ELSE "Price left red-blue zone",
                                          current_time, current_price, F0_6)>>
                      ELSE <<>>
                 ELSE <<>>
        contact == IF current_zone = "at_blue_line"
                   THEN <<RetraceEvent("blue_line_contact", "Price touched blue line",
                                       current_time, current_price, F0_9)>>
                   ELSE <<>>
    IN moved \o contact

\* for i in range(len(df) - lookback, len(df)), from row i on
RECURSIVE RetraceFrom(_, _, _, _, _, _)
RetraceFrom(df, jaw, teeth, lips, trend_direction, i) ==
    IF i > Len(df.close) THEN <<>>
    ELSE RowEvents(df, jaw, teeth, lips, trend_direction, i)
         \o RetraceFrom(df, jaw, teeth, lips, trend_direction, i + 1)

analyze_retracement_history(df, jaw, teeth, lips, trend_direction, lookback) ==
    IF Len(df.close) < lookback \/ trend_direction = "mixed" THEN <<>>
    ELSE LET events == RetraceFrom(df, jaw, teeth, lips, trend_direction,
                                   Len(df.close) - lookback + 1)
             recent == SelectSeq(events,
                                 LAMBDA e : df.ts - e.timestamp <= RecentEventHours * 3600)
         IN [k \in 1..Len(recent) |->
                [type |-> recent[k].type, description |-> recent[k].description,
                 timestamp |-> recent[k].timestamp, price |-> recent[k].price,
                 strength |-> recent[k].strength,
                 hours_ago |-> Q(df.ts - recent[k].timestamp, 3600)]]

\* line values of the frame: lips above teeth above jaw, the reverse, teeth
\* below both, and the three within 0.15% of each other
RetraceLines ==
    { [jaw |-> 1000, teeth |-> 1010, lips |-> 1020],
      [jaw |-> 1020, teeth |-> 1010, lips |-> 1000],
      [jaw |-> 1010, teeth |-> 1000, lips |-> 1020],
      [jaw |-> 1000, teeth |-> 1000, lips |-> 1001] }

\* closes beyond the lines on either side, between them, and next to 1000 or 1020
RetraceCloses == { 990, 1001, 1010, 1019, 1030 }

\* a frame of lookback + 1 rows that closed at 1030 up to its last rows
RetraceFrame(tail) ==
    [close |-> [k \in 1..(RetracementLookback + 1) |->
                   IF k <= RetracementLookback + 1 - Len(tail) THEN 1030
                   ELSE tail[k - (RetracementLookback + 1 - Len(tail))]],
     ts |-> LatestTimestamp]

RetraceInit ==
    /\ IdleEval
    /\ retraceLog \in [lines : RetraceLines, tail : [1..MaxRetraceTail -> RetraceCloses],
                       out : {NoValue}]
    /\ market = [s \in Symbols |-> EmptySnapshot]
    /\ IdleConf
    /\ IdleInd
    /\ IdleService
    /\ IdleBot
    /\ IdleGator
    /\ IdleHull
    /\ IdleDedup
    /\ IdleTransitions
    /\ IdleKijun
    /\ IdleDivergence
    /\ IdleCollect

\* analyze_symbol_alligator from current_direction on, then get_alligator_signals
RetraceEvaluate ==
    /\ retraceLog.out = NoValue
    /\ LET df == RetraceFrame(retraceLog.tail)
           jaw == [k \in 1..Len(df.close) |-> retraceLog.lines.jaw]
           teeth == [k \in 1..Len(df.close) |-> retraceLog.lines.teeth]
           lips == [k \in 1..Len(df.close) |-> retraceLog.lines.lips]
           current_direction ==
               determine_alligator_state(Q(retraceLog.lines.jaw, 1), Q(retraceLog.lines.teeth, 1),
                                         Q(retraceLog.lines.lips, 1)).direction
           retracement_events == analyze_retracement_history(df, jaw, teeth, lips,
                                                             current_direction, RetracementLookback)
       IN retraceLog' = [retraceLog EXCEPT !.out =
                            [none |-> FALSE,
                             trend_direction |-> current_direction,
                             retracement_events |-> retracement_events,
                             signals |-> AlligatorSignals(retracement_events)]]
    /\ UNCHANGED <<market, confOut, indVars, serviceVars, botLog, gator, candles, detected, dedup, alligatorLog, kijunLog, aoLog, priceData, evalLog>>

RetraceNext == RetraceEvaluate

SpecRetrace == RetraceInit /\ [][RetraceNext]_vars

\* C29: an Alligator zone_entry or blue_line_contact event passed to the
\* aggregator is tagged with the bullish system when it was detected under a
\* bullish Alligator trend direction and with the bearish system when detected
\* under a bearish trend direction.
C29_TaggedByTrendDirection ==
    retraceLog.out # NoValue =>
        \A k \in 1..Len(retraceLog.out.signals) :
            /\ retraceLog.out.trend_direction = "bullish" =>
                  retraceLog.out.signals[k].system = WIND
            /\ retraceLog.out.trend_direction = "bearish" =>
                  retraceLog.out.signals[k].system = RIVER

\* whatever the trend direction, the events passed on are tagged river_turn
AlligatorAlwaysRiver ==
    retraceLog.out # NoValue =>
        \A k \in 1..Len(retraceLog.out.signals) : retraceLog.out.signals[k].system = RIVER

\* both trend directions do give events that are passed on
RetraceBearishSeen ==
    ~(/\ retraceLog.out # NoValue
      /\ retraceLog.out.trend_direction = "bearish"
      /\ Len(retraceLog.out.signals) >= 2)

-----------------------------------------------------------------------------
(* SpecEval: one call of analyze_master_confluence beside the thread of      *)
(* run_services.data_collection_service.  The call reads price_data five     *)
(* times, each with a SELECT of its own: in its body, then in each of the    *)
(* four analyzers.  The collector commits to the same table from its own     *)
(* connection between any two of them.                                       *)

LoadsPerEvaluation == 5     \* get_price_data: aggregator, Hull, AO, Alligator, Ichimoku

\* the store as one load saw it for the symbol
AsLoaded(snap) == [s \in Symbols |-> snap]

\* analyze_master_confluence with each get_price_data returning what its own
\* SELECT found: loads[1] in the body, loads[2..5] in the analyzers
EvaluateOn(loads, symbol) ==
    LET df == get_price_data(AsLoaded(loads[1]), symbol, QueryLimit)
    IN IF df = NoValue THEN Returned(NoValue)
       ELSE IF df.n < MinRows THEN Returned(NoValue)
       ELSE LET hull_signals == get_hull_signals(AsLoaded(loads[2]), symbol)
                ao_signals == get_ao_signals(AsLoaded(loads[3]), symbol)
                alligator_signals == get_alligator_signals(AsLoaded(loads[4]), symbol)
                ichimoku_signals == get_ichimoku_signals(AsLoaded(loads[5]), symbol)
                volume == detect_volume_signals(df)
            IN IF volume.raised THEN Raised(volume.exc)
               ELSE Returned(
                      [symbol |-> symbol, timestamp |-> df.ts, price |-> df.close,
                       hull_signals |-> hull_signals, ao_signals |-> ao_signals,
                       alligator_signals |-> alligator_signals,
                       ichimoku_signals |-> ichimoku_signals,
                       volume_signals |-> volume.value,
                       confluence |-> calculate_master_confluence(
                           hull_signals, ao_signals, alligator_signals,
                           ichimoku_signals, volume.value)])

\* the body returns None after its own load: no analyzer is called
ReturnsEarly(loads, symbol) ==
    /\ Len(loads) >= 1
    /\ LET df == get_price_data(AsLoaded(loads[1]), symbol, QueryLimit)
       IN df = NoValue \/ df.n < MinRows

EvalInit ==
    /\ market \in { [s \in Symbols |-> snap] : snap \in ServiceSnapshots(LatestTimestamp) }
    /\ evalLog \in [symbol : Symbols, loads : {<<>>}, out : {NoValue}]
    /\ watchlist = {}
    /\ signals = <<>>
    /\ now = LatestTimestamp
    /\ bot = "none"
    /\ pc = "sleeping"
    /\ entries = <<>>
    /\ idx = 1
    /\ stats = FreshStats
    /\ scanlog = <<>>
    /\ IdleConf
    /\ IdleInd
    /\ IdleBot
    /\ IdleGator
    /\ IdleHull
    /\ IdleDedup
    /\ IdleTransitions
    /\ IdleKijun
    /\ IdleDivergence
    /\ IdleCollect
    /\ IdleRetrace

\* the next get_price_data of the call reads what is committed now
EvalLoad ==
    /\ evalLog.out = NoValue
    /\ Len(evalLog.loads) < LoadsPerEvaluation
    /\ ~ReturnsEarly(evalLog.loads, evalLog.symbol)
    /\ evalLog' = [evalLog EXCEPT !.loads = Append(@, market[evalLog.symbol])]
    /\ UNCHANGED <<market, confOut, indVars, serviceVars, botLog, gator, candles, detected, dedup, alligatorLog, kijunLog, aoLog, priceData, retraceLog>>

\* the call returns its result dict, or None, or raises
EvalReturn ==
    /\ evalLog.out = NoValue
    /\ \/ Len(evalLog.loads) = LoadsPerEvaluation
       \/ ReturnsEarly(evalLog.loads, evalLog.symbol)
    /\ evalLog' = [evalLog EXCEPT !.out =
                      [none |-> FALSE,
                       result |-> EvaluateOn(evalLog.loads, evalLog.symbol)]]
    /\ UNCHANGED <<market, confOut, indVars, serviceVars, botLog, gator, candles, detected, dedup, alligatorLog, kijunLog, aoLog, priceData, retraceLog>>

EvalNext == EvalLoad \/ EvalReturn \/ Tick \/ Collect

SpecEval == EvalInit /\ [][EvalNext]_vars

\* C30: within one evaluation all detector families, the volume reading and the
\* result's timestamp and price are derived from the same candle snapshot, even
\* when the collector stores new candles between the loads: the result is
\* what the evaluation of one state of the store, one that a load saw, gives.
C30_OneSnapshotPerEvaluation ==
    (evalLog.out # NoValue /\ ~evalLog.out.result.raised /\ evalLog.out.result.value # NoValue) =>
        \E k \in 1..Len(evalLog.loads) :
            evalLog.out.result = analyze_master_confluence(AsLoaded(evalLog.loads[k]),
                                                           evalLog.symbol)

\* without a write between its loads the evaluation is that of the one snapshot
UndisturbedEvaluationIsConsistent ==
    (/\ evalLog.out # NoValue
     /\ \A k \in 1..Len(evalLog.loads) : evalLog.loads[k] = evalLog.loads[1]) =>
        evalLog.out.result = analyze_master_confluence(AsLoaded(evalLog.loads[1]), evalLog.symbol)

=============================================================================
